---------------------------- MODULE Spec2Model ----------------------------
(***************************************************************************)
(* Model of the hanasu push-to-talk daemon: the Quartz hotkey listener     *)
(* (hanasu/hotkey.py), the audio recorder (hanasu/recorder.py) and the     *)
(* orchestrator Hanasu (hanasu/main.py).                                   *)
(*                                                                         *)
(* A hotkey string is modelled as the sequence of its '+'-separated raw    *)
(* tokens ("cmd+d" is <<"cmd", "d">>, "" is <<"">>).  A flag mask is       *)
(* modelled as the set of the flag bits that are set, so that | is \cup    *)
(* and & is \cap.  An audio array is modelled as the sequence of the       *)
(* chunks it is the concatenation of; a chunk <<r, n>> stands for n        *)
(* samples delivered during the r-th recording.                            *)
(***************************************************************************)
EXTENDS Integers, Sequences, FiniteSets, TLC

(***************************************************************************)
(* Bounds of the model.                                                    *)
(***************************************************************************)
\* the longest call log after which no further operation is begun
MaxCalls == 5
\* the largest number of chunks the audio thread delivers to one recording
MaxChunks == 2

\* the program's minimum recording length, in samples
MIN_SAMPLES == 8000

\* sizes of the chunks the audio thread delivers
ChunkSizes == {1, MIN_SAMPLES - 1}
\* the number of sleeps of the injector's wait for the modifiers that fill
\* its timeout
WaitTicks == 2
\* keys of the physical keyboard, and the modifier keys the user can hold
PhysKeys == {"d", "a"}
PhysMods == {"Command", "Shift"}
\* hotkey strings a rebind request may carry
HotkeyInputs == { <<"cmd", "d">>, <<"SHIFT", " a ">>, <<"cmd", "bogus">>, <<"">> }
\* the hotkey of the configuration file read at startup
InitHotkey == <<"cmd", "d">>
\* texts the transcription engine may return
RawTexts == {"", "  ", "hi"}

VARIABLES
    physFlags,      \* flag bits of the modifier keys physically held
    keysDown,       \* keys physically held
    hl,             \* Hanasu.hotkey_listener: a HotkeyListener
    lastEvent,      \* the last event handed to _event_callback, what it returned
                    \* and the callback it fired
    cbLog,          \* the callbacks the current listener has fired, oldest first
    rec,            \* Hanasu.recorder: a Recorder
    recording,      \* Hanasu._recording
    config,         \* Hanasu.config
    saved,          \* the configuration file as last written by save_config
    dictionary,     \* Hanasu.dictionary
    menubar,        \* Hanasu._menubar_app
    calls,          \* log of the calls the orchestrator made to its collaborators
    exc,            \* the exception that left the last rebind request, or "none"
    strayListeners, \* number of replaced listeners that were left running
    transcriber,    \* Hanasu.transcriber: the model of the active Transcriber
    usedModel,      \* the model of the transcriber the last transcribe call ran on
    model_change_in_progress,   \* Hanasu._model_change_in_progress
    swaps,          \* the do_change worker threads that are running, oldest first
    swapCalls,      \* log of the calls change_model and its workers made
    cached,         \* the models in the local model cache
    modelMenu,      \* the menu bar's _current_model and _downloading_models
    lastRequest,    \* the last change_model request and how it ended
    rclient,        \* a client of the Recorder: where it is in its calls, what
                    \* the last stop returned, what the stream delivered
    pasting,        \* a call of inject_text: its arguments and position, the
                    \* clipboard, and what it did to the clipboard and keyboard
    lthread,        \* the thread of the HotkeyListener and the caller of stop
    parsing,        \* a hotkey string, a respelling of it, and what parse_hotkey
                    \* returned for each
    matching,       \* a hotkey, a key event, the same event with other flags,
                    \* and what the callback's test said of each
    threads         \* the threads that run the orchestrator's handlers: where
                    \* the capture thread, the UI thread and a do_change
                    \* worker are in their handler, and what they hold

vars == << physFlags, keysDown, hl, lastEvent, cbLog, rec,
           recording, config, saved, dictionary, menubar, calls,
           exc, strayListeners, transcriber, usedModel,
           model_change_in_progress, swaps, swapCalls, cached, modelMenu,
           lastRequest, rclient, pasting, lthread, parsing,
           matching, threads >>

physVars == << physFlags, keysDown >>
appVars == << recording, config, saved, dictionary, menubar, calls >>
rebindVars == << exc, strayListeners >>
swapVars == << transcriber, model_change_in_progress, swaps, swapCalls, cached,
               modelMenu, lastRequest >>
\* the variables of the components exercised on their own
unitVars == << rclient, pasting, lthread, parsing, matching, threads >>

(***************************************************************************)
(* hanasu/hotkey.py: tables and parse_hotkey                               *)
(***************************************************************************)
KEYCODE_MAP ==
    [ a |-> 0, b |-> 11, c |-> 8, d |-> 2, e |-> 14, f |-> 3, g |-> 5, h |-> 4,
      i |-> 34, j |-> 38, k |-> 40, l |-> 37, m |-> 46, n |-> 45, o |-> 31,
      p |-> 35, q |-> 12, r |-> 15, s |-> 1, t |-> 17, u |-> 32, v |-> 9,
      w |-> 13, x |-> 7, y |-> 16, z |-> 6,
      space |-> 49, enter |-> 36, return |-> 36, tab |-> 48, escape |-> 53,
      esc |-> 53, backspace |-> 51, delete |-> 51, forwarddelete |-> 117,
      up |-> 126, down |-> 125, left |-> 123, right |-> 124, home |-> 115,
      end |-> 119, pageup |-> 116, pagedown |-> 121,
      f1 |-> 122, f2 |-> 120, f3 |-> 99, f4 |-> 118, f5 |-> 96, f6 |-> 97,
      f7 |-> 98, f8 |-> 100, f9 |-> 101, f10 |-> 109, f11 |-> 103, f12 |-> 111,
      f13 |-> 105, f14 |-> 107, f15 |-> 113, f16 |-> 106, f17 |-> 64,
      f18 |-> 79, f19 |-> 80, f20 |-> 90 ]
    @@ ("0" :> 29 @@ "1" :> 18 @@ "2" :> 19 @@ "3" :> 20 @@ "4" :> 21
        @@ "5" :> 23 @@ "6" :> 22 @@ "7" :> 26 @@ "8" :> 28 @@ "9" :> 25)

MODIFIER_FLAGS ==
    [ cmd |-> {"Command"}, command |-> {"Command"}, meta |-> {"Command"},
      shift |-> {"Shift"},
      alt |-> {"Alternate"}, option |-> {"Alternate"},
      ctrl |-> {"Control"}, control |-> {"Control"} ]

\* faulty variant: the tokens are stripped but not put in lower case
StripLower_NoLower(p) ==
    CASE p = " "     -> ""
      [] p = "  "    -> ""
      [] p = " a "   -> "a"
      [] p = " d "   -> "d"
      [] OTHER       -> p

\* p.strip().lower() on the raw tokens the model uses; any other token is
\* already stripped and in lower case
StripLower(p) ==
    CASE p = " "     -> ""
      [] p = "  "    -> ""
      [] p = " a "   -> "a"
      [] p = " d "   -> "d"
      [] p = "A"     -> "a"
      [] p = "D"     -> "d"
      [] p = "CMD"   -> "cmd"
      [] p = "Cmd"   -> "cmd"
      [] p = "COMMAND" -> "command"
      [] p = "SHIFT" -> "shift"
      [] p = "Shift" -> "shift"
      [] p = "META"  -> "meta"
      [] p = "ALT"   -> "alt"
      [] p = "Option" -> "option"
      [] p = "CTRL"  -> "ctrl"
      [] OTHER       -> p

\* not hotkey_str or not hotkey_str.strip(): a string with a '+' in it is not empty
IsBlank(hotkey_str) ==
    Len(hotkey_str) = 1 /\ StripLower(hotkey_str[1]) = ""

NoKey == -1

\* faulty variant: a modifier that is named again is taken out of the mask
RECURSIVE ParseParts_Toggle(_, _, _, _)
ParseParts_Toggle(parts, i, mask, keycode) ==
    IF i > Len(parts)
    THEN IF keycode = NoKey
         THEN [ok |-> FALSE, err |-> "No key specified in hotkey"]
         ELSE [ok |-> TRUE, modifier_mask |-> mask, keycode |-> keycode]
    ELSE LET part == StripLower(parts[i]) IN
         IF part \in DOMAIN MODIFIER_FLAGS
         THEN ParseParts_Toggle(parts, i + 1,
                                (mask \cup MODIFIER_FLAGS[part])
                                    \ (mask \cap MODIFIER_FLAGS[part]),
                                keycode)
         ELSE IF part \in DOMAIN KEYCODE_MAP
         THEN IF keycode # NoKey
              THEN [ok |-> FALSE, err |-> "Multiple keys specified"]
              ELSE ParseParts_Toggle(parts, i + 1, mask, KEYCODE_MAP[part])
         ELSE [ok |-> FALSE, err |-> "Unknown key"]

\* the loop of parse_hotkey over parts[i..], from the state (mask, keycode)
RECURSIVE ParseParts(_, _, _, _)
ParseParts(parts, i, mask, keycode) ==
    IF i > Len(parts)
    THEN IF keycode = NoKey
         THEN [ok |-> FALSE, err |-> "No key specified in hotkey"]
         ELSE [ok |-> TRUE, modifier_mask |-> mask, keycode |-> keycode]
    ELSE LET part == StripLower(parts[i]) IN
         IF part \in DOMAIN MODIFIER_FLAGS
         THEN ParseParts(parts, i + 1, mask \cup MODIFIER_FLAGS[part], keycode)
         ELSE IF part \in DOMAIN KEYCODE_MAP
         THEN IF keycode # NoKey
              THEN [ok |-> FALSE, err |-> "Multiple keys specified"]
              ELSE ParseParts(parts, i + 1, mask, KEYCODE_MAP[part])
         ELSE [ok |-> FALSE, err |-> "Unknown key"]

\* faulty variant: parse_hotkey without its test for an empty string
parse_hotkey_NoEmptyCheck(hotkey_str) ==
    ParseParts(hotkey_str, 1, {}, NoKey)

parse_hotkey(hotkey_str) ==
    IF IsBlank(hotkey_str)
    THEN [ok |-> FALSE, err |-> "Hotkey string cannot be empty"]
    ELSE ParseParts(hotkey_str, 1, {}, NoKey)


(***************************************************************************)
(* hanasu/hotkey.py: HotkeyListener                                        *)
(***************************************************************************)
\* the four modifier flags _event_callback keeps
TrackedFlags == {"Command", "Shift", "Alternate", "Control"}
\* flag bits an event may carry besides the modifiers (caps lock)
IncidentalFlags == {"AlphaShift"}

NoEvent ==
    [type |-> "none", keycode |-> NoKey, flags |-> {}, ret |-> "none", fired |-> "none"]

\* faulty variant: the flags are compared without masking them first
Matches_NoMask(cfg, keycode, flags) ==
    /\ keycode = cfg.keycode
    /\ flags = cfg.modifier_mask

\* faulty variant: modifiers held besides the hotkey's are tolerated
Matches_Subset(cfg, keycode, flags) ==
    /\ keycode = cfg.keycode
    /\ cfg.modifier_mask \subseteq (flags \cap TrackedFlags)

\* the test of _event_callback: is the event the hotkey?
Matches(cfg, keycode, flags) ==
    /\ keycode = cfg.keycode
    /\ (flags \cap TrackedFlags) = cfg.modifier_mask

\* HotkeyListener.__init__ after a successful parse; tap is _tap: "none",
\* "enabled" or "disabled"
NewListener(parsed) ==
    [ hotkey_config |-> [modifier_mask |-> parsed.modifier_mask,
                         keycode |-> parsed.keycode],
      hotkey_active |-> FALSE,
      tap |-> "none",
      running |-> FALSE ]

\* HotkeyListener.start: the new thread creates its tap and enables it
HL_start(l) == [l EXCEPT !.running = TRUE, !.tap = "enabled"]

\* HotkeyListener.stop: the tap, if any, is disabled and the thread joined
HL_stop(l) ==
    [l EXCEPT !.running = FALSE,
              !.tap = IF l.tap = "none" THEN "none" ELSE "disabled"]

\* the listener's thread is in its run loop and its tap hands it events
Listening(l) == l.running /\ l.tap = "enabled"

(***************************************************************************)
(* hanasu/recorder.py: Recorder                                            *)
(***************************************************************************)
RECURSIVE AudioLen(_)
AudioLen(audio) ==
    IF audio = <<>> THEN 0 ELSE Head(audio)[2] + AudioLen(Tail(audio))

\* number of Recorder.start calls so far: the index of the current recording
NumStarts == Cardinality({i \in DOMAIN calls : calls[i].op = "rec_start"})

\* Recorder.__init__; open counts the input streams that are open
NewRecorder == [buffer |-> <<>>, recording |-> FALSE, stream |-> FALSE, open |-> 0]

Recorder_start(r) ==
    [buffer |-> <<>>, recording |-> TRUE, stream |-> TRUE, open |-> r.open + 1]

Recorder_stop(r) ==
    [r EXCEPT !.recording = FALSE,
              !.stream = FALSE,
              !.open = IF r.stream THEN r.open - 1 ELSE r.open]

\* what Recorder.stop returns: the concatenation of the buffer
Recorder_stop_result(r) == r.buffer

\* the first statement of Recorder.stop: the recorder is disarmed while its
\* stream is still open
Recorder_disarm(r) == [r EXCEPT !.recording = FALSE]

\* faulty variant: the callback appends whether or not the recorder is armed
Recorder_audio_callback_NoGuard(r, chunk) ==
    [r EXCEPT !.buffer = Append(r.buffer, chunk)]

\* Recorder._audio_callback
Recorder_audio_callback(r, chunk) ==
    IF r.recording THEN [r EXCEPT !.buffer = Append(r.buffer, chunk)] ELSE r

(***************************************************************************)
(* hanasu/transcriber.py: Transcriber.transcribe                           *)
(***************************************************************************)
Dictionaries ==
    { [terms |-> <<>>, replacements |-> {}],
      [terms |-> <<"hanasu">>, replacements |-> {<<"hi", "hello">>}] }

\* result["text"].strip() on the texts of RawTexts
Strip(text) == IF text = "  " THEN "" ELSE text

\* apply_replacements on texts that are a pattern or hold none
apply_replacements(text, replacements) ==
    IF \E p \in replacements : p[1] = text
    THEN (CHOOSE p \in replacements : p[1] = text)[2]
    ELSE text

\* raw is the text the engine returns for the audio
transcribe(audio, dict, raw) ==
    IF AudioLen(audio) = 0 THEN ""
    ELSE IF dict.replacements # {}
         THEN apply_replacements(Strip(raw), dict.replacements)
         ELSE Strip(raw)

(***************************************************************************)
(* hanasu/main.py: Hanasu                                                  *)
(***************************************************************************)
NoMenubar == [installed |-> FALSE, is_recording |-> FALSE, hotkey_display |-> << >>]

\* a logged call: the operation, its arguments (for the recorder's stop, the
\* method that called it) and what it returned
CallR(op, arg, ret) == [op |-> op, arg |-> arg, ret |-> ret]
Call(op, arg) == CallR(op, arg, "")

\* if self._menubar_app: self._menubar_app.setRecording_(v)
SetRecordingCalls(mb, v) ==
    IF mb.installed THEN << Call("setRecording", v) >> ELSE << >>

SetRecording(mb, v) ==
    IF mb.installed THEN [mb EXCEPT !.is_recording = v] ELSE mb

\* if self._menubar_app: self._menubar_app.setHotkey_(h)
SetHotkeyCalls(mb, h) ==
    IF mb.installed THEN << Call("setHotkey", h) >> ELSE << >>

\* faulty variant: the menu bar is not told of the new hotkey
SetHotkey_Stale(mb, h) == mb

SetHotkey(mb, h) ==
    IF mb.installed THEN [mb EXCEPT !.hotkey_display = h] ELSE mb

\* faulty variant: the press handler without its guard on _recording
OnHotkeyPress_NoGuard ==
    /\ recording' = TRUE
    /\ rec' = Recorder_start(rec)
    /\ menubar' = SetRecording(menubar, TRUE)
    /\ calls' = calls \o << Call("rec_start", "") >>
                      \o SetRecordingCalls(menubar, TRUE)
    /\ UNCHANGED << config, saved, dictionary >>

\* Hanasu._on_hotkey_press
OnHotkeyPress ==
    IF recording
    THEN UNCHANGED << appVars, rec >>
    ELSE /\ recording' = TRUE
         /\ rec' = Recorder_start(rec)
         /\ menubar' = SetRecording(menubar, TRUE)
         /\ calls' = calls \o << Call("rec_start", "") >>
                           \o SetRecordingCalls(menubar, TRUE)
         /\ UNCHANGED << config, saved, dictionary >>

\* faulty variant: the text is injected without the test that it is not empty
ReleaseTail_InjectsEmpty(audio, raw) ==
    IF AudioLen(audio) = 0 THEN << >>
    ELSE IF AudioLen(audio) < MIN_SAMPLES THEN << >>
    ELSE LET text == transcribe(audio, dictionary, raw) IN
         << CallR("transcribe", << audio, dictionary >>, text),
            Call("inject", << text, config.clear_clipboard >>) >>

\* faulty variant: a buffer of exactly MIN_SAMPLES samples is discarded too
ReleaseTail_OffByOne(audio, raw) ==
    IF AudioLen(audio) = 0 THEN << >>
    ELSE IF AudioLen(audio) <= MIN_SAMPLES THEN << >>
    ELSE LET text == transcribe(audio, dictionary, raw) IN
         << CallR("transcribe", << audio, dictionary >>, text) >>
         \o (IF text # ""
             THEN << Call("inject", << text, config.clear_clipboard >>) >>
             ELSE << >>)

\* the calls of Hanasu._on_hotkey_release after the UI update
ReleaseTail(audio, raw) ==
    IF AudioLen(audio) = 0 THEN << >>
    ELSE IF AudioLen(audio) < MIN_SAMPLES THEN << >>
    ELSE LET text == transcribe(audio, dictionary, raw) IN
         << CallR("transcribe", << audio, dictionary >>, text) >>
         \o (IF text # ""
             THEN << Call("inject", << text, config.clear_clipboard >>) >>
             ELSE << >>)

\* Hanasu._on_hotkey_release
OnHotkeyRelease(raw) ==
    /\ recording' = FALSE
    /\ rec' = Recorder_stop(rec)
    /\ menubar' = SetRecording(menubar, FALSE)
    /\ calls' = calls \o << Call("rec_stop", "_on_hotkey_release") >>
                      \o SetRecordingCalls(menubar, FALSE)
                      \o ReleaseTail(Recorder_stop_result(rec), raw)
    /\ usedModel' = IF AudioLen(Recorder_stop_result(rec)) >= MIN_SAMPLES
                    THEN transcriber
                    ELSE usedModel
    /\ UNCHANGED << config, saved, dictionary >>

\* faulty variant: on_press is fired on every matching key-down
FiresPress_Always(l) == TRUE

\* the guards of _event_callback on the held flag
FiresPress(l) == ~l.hotkey_active
FiresRelease(l) == l.hotkey_active

\* HotkeyListener._event_callback; ret is what it returns: the event, or None
\* to swallow it
EventCallback(event_type, keycode, flags) ==
    LET ev(ret, fired) == [type |-> event_type, keycode |-> keycode,
                           flags |-> flags, ret |-> ret, fired |-> fired]
    IN
    IF event_type = "TapDisabledByTimeout"
    THEN /\ hl' = [hl EXCEPT !.tap = "enabled"]
         /\ lastEvent' = ev("event", "none")
         /\ UNCHANGED << cbLog, appVars, rec, usedModel >>
    ELSE IF Matches(hl.hotkey_config, keycode, flags) /\ event_type = "KeyDown"
    THEN IF FiresPress(hl)
         THEN /\ hl' = [hl EXCEPT !.hotkey_active = TRUE]
              /\ cbLog' = Append(cbLog, "on_press")
              /\ OnHotkeyPress
              /\ UNCHANGED usedModel
              /\ lastEvent' = ev("None", "on_press")
         ELSE /\ lastEvent' = ev("None", "none")
              /\ UNCHANGED << hl, cbLog, appVars, rec, usedModel >>
    ELSE IF Matches(hl.hotkey_config, keycode, flags) /\ event_type = "KeyUp"
    THEN IF FiresRelease(hl)
         THEN /\ hl' = [hl EXCEPT !.hotkey_active = FALSE]
              /\ cbLog' = Append(cbLog, "on_release")
              /\ \E raw \in RawTexts : OnHotkeyRelease(raw)
              /\ lastEvent' = ev("None", "on_release")
         ELSE /\ lastEvent' = ev("None", "none")
              /\ UNCHANGED << hl, cbLog, appVars, rec, usedModel >>
    ELSE /\ lastEvent' = ev("event", "none")
         /\ UNCHANGED << hl, cbLog, appVars, rec, usedModel >>

\* 1 if the listener's thread is still running, else 0
LeftRunning(l) == IF l.running THEN 1 ELSE 0

\* the exception that leaves _on_hotkey_change when the constructor of the new
\* listener raised: "except Exception" catches it and prints a message
OnHotkeyChange_exc(parsed) == "none"

\* faulty variant: change_hotkey swallows the error of the constructor
ChangeHotkey_exc_Swallowed(parsed) == "none"

\* the exception that leaves change_hotkey: nothing catches what the
\* constructor of the new listener raises
ChangeHotkey_exc(parsed) == IF parsed.ok THEN "none" ELSE "HotkeyParseError"

\* Hanasu._on_hotkey_change, the menu bar's rebind request
OnHotkeyChange(new_hotkey) ==
    LET parsed == parse_hotkey(new_hotkey)
        rec1   == IF recording THEN Recorder_stop(rec) ELSE rec
        mb1    == IF recording THEN SetRecording(menubar, FALSE) ELSE menubar
        calls1 == IF recording
                  THEN calls \o << Call("rec_stop", "_on_hotkey_change") >>
                             \o SetRecordingCalls(menubar, FALSE)
                  ELSE calls
        config1 == [config EXCEPT !.hotkey = new_hotkey]
    IN
    IF IsBlank(new_hotkey)
    THEN /\ exc' = "none"
         /\ UNCHANGED << hl, cbLog, rec, appVars, strayListeners >>
    ELSE /\ recording' = FALSE
         /\ rec' = rec1
         /\ exc' = OnHotkeyChange_exc(parsed)
         /\ IF ~parsed.ok
            THEN /\ hl' = HL_start(HL_stop(hl))
                 /\ UNCHANGED << cbLog, strayListeners >>
                 /\ menubar' = mb1
                 /\ calls' = calls1
                 /\ UNCHANGED << config, saved >>
            ELSE /\ config' = config1
                 /\ saved' = config1
                 /\ hl' = HL_start(NewListener(parsed))
                 /\ strayListeners' = strayListeners + LeftRunning(HL_stop(hl))
                 /\ cbLog' = << >>
                 /\ menubar' = SetHotkey(mb1, new_hotkey)
                 /\ calls' = calls1 \o << Call("save_config", config1) >>
                                    \o SetHotkeyCalls(mb1, new_hotkey)
         /\ UNCHANGED dictionary

\* Hanasu.change_hotkey; on a parse error HotkeyParseError leaves the method
\* after the old listener was stopped
ChangeHotkey(new_hotkey) ==
    LET parsed == parse_hotkey(new_hotkey)
        config1 == [config EXCEPT !.hotkey = new_hotkey]
    IN
    IF ~parsed.ok
    THEN /\ hl' = HL_stop(hl)
         /\ exc' = ChangeHotkey_exc(parsed)
         /\ UNCHANGED << cbLog, rec, appVars, strayListeners >>
    ELSE /\ hl' = HL_start(NewListener(parsed))
         /\ strayListeners' = strayListeners + LeftRunning(HL_stop(hl))
         /\ exc' = ChangeHotkey_exc(parsed)
         /\ cbLog' = << >>
         /\ config' = config1
         /\ saved' = config1
         /\ menubar' = SetHotkey(menubar, new_hotkey)
         /\ calls' = calls \o << Call("save_config", config1) >>
                           \o SetHotkeyCalls(menubar, new_hotkey)
         /\ UNCHANGED << rec, recording, dictionary >>

(***************************************************************************)
(* hanasu/main.py: change_model and its worker thread do_change            *)
(***************************************************************************)
VALID_MODELS == {"tiny", "base", "small", "medium", "large"}

\* no change_model request was made yet
NoRequest == [model |-> "none", result |-> "none"]

\* a logged call of change_model (by = 0) or of the by-th worker
SwapCall(op, arg, by) == [op |-> op, arg |-> arg, by |-> by]

\* faulty variant: the request is not refused while Recording
ChangeModelRefusal_NoRecordingCheck(new_model) ==
    IF new_model \notin VALID_MODELS THEN "invalid"
    ELSE IF new_model = config.model THEN "same"
    ELSE IF model_change_in_progress THEN "busy"
    ELSE "none"

\* faulty variant: the request is not refused while a swap is in progress
ChangeModelRefusal_NoBusyCheck(new_model) ==
    IF new_model \notin VALID_MODELS THEN "invalid"
    ELSE IF new_model = config.model THEN "same"
    ELSE IF recording THEN "recording"
    ELSE "none"

\* faulty variant: a request for the current model is not refused
ChangeModelRefusal_NoSameCheck(new_model) ==
    IF new_model \notin VALID_MODELS THEN "invalid"
    ELSE IF recording THEN "recording"
    ELSE IF model_change_in_progress THEN "busy"
    ELSE "none"

\* the early returns of change_model: why the request is dropped, or "none"
ChangeModelRefusal(new_model) ==
    IF new_model \notin VALID_MODELS THEN "invalid"
    ELSE IF new_model = config.model THEN "same"
    ELSE IF recording THEN "recording"
    ELSE IF model_change_in_progress THEN "busy"
    ELSE "none"

\* number of worker threads started so far
NumSwaps ==
    Cardinality({j \in DOMAIN swapCalls : swapCalls[j].op = "Thread.start"})

\* the thread change_model starts, the id-th one; old_model is the model of
\* the active transcriber at that moment, download how download_model ended,
\* exc the exception travelling up do_change
NewWorker(new_model, id) ==
    [ id |-> id, new_model |-> new_model, old_model |-> transcriber,
      pc |-> "is_cached", download |-> "none", exc |-> "none" ]

\* Hanasu.change_model, up to and including the start of the worker thread
ChangeModel(new_model) ==
    LET why == ChangeModelRefusal(new_model) IN
    /\ lastRequest' = [model |-> new_model,
                       result |-> IF why = "none" THEN "started" ELSE why]
    /\ IF why # "none"
       THEN UNCHANGED << model_change_in_progress, swaps, swapCalls >>
       ELSE /\ model_change_in_progress' = TRUE
            /\ swaps' = Append(swaps, NewWorker(new_model, NumSwaps + 1))
            /\ swapCalls' = Append(swapCalls,
                                   SwapCall("Thread.start", new_model, 0))
    /\ UNCHANGED << transcriber, cached, modelMenu, config, saved >>

\* MenuBarApp.setModelDownloading_ / applyDownloadState
SetModelDownloading(mm, model, downloading) ==
    [mm EXCEPT !.downloading = IF downloading THEN @ \cup {model}
                                              ELSE @ \ {model}]

\* faulty variant: the menu bar is not told of the new current model
SetCurrentModel_Stale(mm, model) == mm

\* MenuBarApp.setCurrentModel_ / applyCurrentModel
SetCurrentModel(mm, model) == [mm EXCEPT !.current_model = model]

\* do_change: if not is_model_cached(new_model), tell the menu bar that the
\* download begins
DoChange_IsCached(i) ==
    LET w == swaps[i] IN
    /\ w.pc = "is_cached"
    /\ IF w.new_model \in cached
       THEN /\ swaps' = [swaps EXCEPT ![i].pc = "construct"]
            /\ UNCHANGED << modelMenu, swapCalls >>
       ELSE /\ swaps' = [swaps EXCEPT ![i].pc = "download"]
            /\ IF menubar.installed
               THEN /\ modelMenu' = SetModelDownloading(modelMenu, w.new_model, TRUE)
                    /\ swapCalls' = Append(swapCalls,
                          SwapCall("setModelDownloading", << w.new_model, TRUE >>, w.id))
               ELSE UNCHANGED << modelMenu, swapCalls >>
    /\ UNCHANGED << transcriber, model_change_in_progress, cached, config, saved >>

\* do_change: download_model, which catches the error of a failed download and
\* prints a warning, and the inner finally that clears the menu bar's
\* downloading state
DoChange_Download(i, ok) ==
    LET w == swaps[i] IN
    /\ w.pc = "download"
    /\ swaps' = [swaps EXCEPT ![i].pc = "construct",
                              ![i].download = IF ok THEN "ok" ELSE "failed"]
    /\ cached' = IF ok THEN cached \cup {w.new_model} ELSE cached
    /\ LET dl == SwapCall("download_model",
                          << w.new_model, IF ok THEN "ok" ELSE "failed" >>, w.id)
       IN IF menubar.installed
          THEN /\ modelMenu' = SetModelDownloading(modelMenu, w.new_model, FALSE)
               /\ swapCalls' = swapCalls \o << dl,
                     SwapCall("setModelDownloading", << w.new_model, FALSE >>, w.id) >>
          ELSE /\ swapCalls' = Append(swapCalls, dl)
               /\ UNCHANGED modelMenu
    /\ UNCHANGED << transcriber, model_change_in_progress, config, saved >>

\* do_change: self.transcriber = Transcriber(model=new_model, ...)
DoChange_Construct(i) ==
    LET w == swaps[i] IN
    /\ w.pc = "construct"
    /\ transcriber' = w.new_model
    /\ swaps' = [swaps EXCEPT ![i].pc = "save"]
    /\ swapCalls' = Append(swapCalls, SwapCall("Transcriber", w.new_model, w.id))
    /\ UNCHANGED << model_change_in_progress, cached, modelMenu, config, saved >>

\* do_change: self.config = Config(..., model=new_model, ...) and
\* save_config(self.config, ...), which writes the file or raises OSError
DoChange_Save(i, ok) ==
    LET w == swaps[i]
        config1 == [config EXCEPT !.model = w.new_model]
    IN
    /\ w.pc = "save"
    /\ config' = config1
    /\ saved' = IF ok THEN config1 ELSE saved
    /\ swaps' = [swaps EXCEPT ![i].pc = IF ok THEN "notify" ELSE "finally",
                              ![i].exc = IF ok THEN "none" ELSE "OSError"]
    /\ swapCalls' = Append(swapCalls,
          SwapCall("save_config", << config1, IF ok THEN "written" ELSE "raised" >>, w.id))
    /\ UNCHANGED << transcriber, model_change_in_progress, cached, modelMenu >>

\* do_change: the menu bar is told the new current model
DoChange_Notify(i) ==
    LET w == swaps[i] IN
    /\ w.pc = "notify"
    /\ swaps' = [swaps EXCEPT ![i].pc = "finally"]
    /\ IF menubar.installed
       THEN /\ modelMenu' = SetCurrentModel(modelMenu, w.new_model)
            /\ swapCalls' = swapCalls
                  \o << SwapCall("setCurrentModel", w.new_model, w.id),
                        SwapCall("refreshModelStates", "", w.id) >>
       ELSE UNCHANGED << modelMenu, swapCalls >>
    /\ UNCHANGED << transcriber, model_change_in_progress, cached, config, saved >>

\* faulty variant: the flag is reset on the normal path only
FlagAfterDoChange_NoFinally(w) == w.exc # "none"

\* the outer finally of do_change: self._model_change_in_progress = False
FlagAfterDoChange(w) == FALSE

\* do_change: the outer finally; the thread then ends, with the exception
\* that was travelling up, if any
DoChange_Finally(i) ==
    LET w == swaps[i] IN
    /\ w.pc = "finally"
    /\ model_change_in_progress' = FlagAfterDoChange(w)
    /\ swaps' = [j \in 1..(Len(swaps) - 1) |->
                    IF j < i THEN swaps[j] ELSE swaps[j + 1]]
    /\ UNCHANGED << transcriber, swapCalls, cached, modelMenu, config, saved >>

(***************************************************************************)
(* The components exercised on their own, by a client that calls their     *)
(* public operations in any order.                                         *)
(***************************************************************************)
\* Recorder.stop has not returned yet
NoAudio == << << 0, 0 >> >>

\* the client of the Recorder before its first call.  pc is "idle", or
\* "stopping" inside Recorder.stop between disarming and closing the stream;
\* ret is what the last stop returned; starts and stops count the calls;
\* startedSinceStop, armed and sinceStart record what the client did: whether
\* it called start since the last stop returned, whether it is between a start
\* and the next stop, and the chunks the stream delivered while it was
NoClient ==
    [ pc |-> "idle", ret |-> NoAudio, starts |-> 0, stops |-> 0,
      startedSinceStop |-> FALSE, armed |-> FALSE, sinceStart |-> << >> ]

(***************************************************************************)
(* hanasu/injector.py: inject_text                                         *)
(***************************************************************************)
\* virtual key code of 'v'
V_KEY_CODE == 9

\* an effect of inject_text on the pasteboard or the keyboard
Effect(op, arg) == [op |-> op, arg |-> arg]

\* the event _simulate_paste posts: 'v' down or up with the Command flag
PasteEvent(type) ==
    Effect("CGEventPost", [type |-> type, keycode |-> V_KEY_CODE,
                           flags |-> {"Command"}])

\* before inject_text is called.  pc is where the call is: "idle", "wait",
\* "key_down", "key_up", "clear" or "returned"; clipboard is the string on the
\* general pasteboard; effects is what the call did so far; created records,
\* for each of the two paste events, whether it could be created; elapsed is
\* the time the wait for the modifiers has taken, in sleeps of its loop
NoInject ==
    [ pc |-> "idle", text |-> "", clear_after |-> FALSE, clipboard |-> "",
      effects |-> << >>, created |-> << >>, elapsed |-> 0 ]

\* faulty variant: empty text is pasted like any other
inject_skips_Never(text) == FALSE

\* if not text: return
inject_skips(text) == text = ""

\* inject_text up to time.sleep(0.05): the early return, or the text is put on
\* the pasteboard
inject_text_begin(i, text, clear_after) ==
    IF inject_skips(text)
    THEN [i EXCEPT !.pc = "returned", !.text = text, !.clear_after = clear_after,
                   !.effects = << >>, !.created = << >>]
    ELSE [ pc |-> "wait", text |-> text, clear_after |-> clear_after,
           clipboard |-> text,
           effects |-> << Effect("clearContents", ""),
                          Effect("setString", text) >>,
           created |-> << >>, elapsed |-> 0 ]

\* _wait_for_modifiers_released returns: no modifier is held, or one second
\* has passed
wait_returns(flags, timed_out) == timed_out \/ flags \cap TrackedFlags = {}

inject_text_wait(i) ==
    [i EXCEPT !.pc = "key_down",
              !.effects = Append(@, Effect("wait_for_modifiers_released", ""))]

\* faulty variant: the wait returns at once, whatever is held
wait_poll_NoWait(flags, elapsed) == "released"

\* one turn of the loop of _wait_for_modifiers_released: the loop ends when
\* the timeout has passed, the function returns when no tracked modifier is
\* held, and otherwise it sleeps
wait_poll(flags, elapsed) ==
    IF elapsed >= WaitTicks THEN "timed_out"
    ELSE IF flags \cap TrackedFlags = {} THEN "released"
    ELSE "sleep"

inject_text_poll(i, flags) ==
    IF wait_poll(flags, i.elapsed) = "sleep"
    THEN [i EXCEPT !.elapsed = @ + 1]
    ELSE inject_text_wait(i)

\* _simulate_paste: an event that could be created is posted
inject_text_post(i, type, created, next_pc) ==
    [i EXCEPT !.pc = next_pc,
              !.created = Append(@, created),
              !.effects = IF created THEN Append(@, PasteEvent(type)) ELSE @]

\* faulty variant: the clipboard is cleared whatever clear_after is
clears_after_Always(clear_after) == TRUE

\* if clear_after: pasteboard.clearContents()
clears_after(clear_after) == clear_after

inject_text_end(i) ==
    IF clears_after(i.clear_after)
    THEN [i EXCEPT !.pc = "returned", !.clipboard = "",
                   !.effects = Append(@, Effect("clearContents", ""))]
    ELSE [i EXCEPT !.pc = "returned"]

(***************************************************************************)
(* hanasu/hotkey.py: the thread of HotkeyListener and the steps of stop    *)
(***************************************************************************)
\* a listener that was not started.  handle is whether _thread is set; pc is
\* where the thread is: "none" (no thread), "create_tap", "loop" (in the run
\* loop, between callbacks), "in_callback" or "ended"; created is how
\* CGEventTapCreate ended; reported is whether the error message was printed;
\* stop_pc is where a caller of stop is: "idle", "disable", "join" or
\* "returned"; joined is how the last join ended; start is how the call of
\* start ended: "none" before it, then "returned" (it only sets the flag and
\* starts the thread, whose failures stay in the thread)
NoThread ==
    [ handle |-> FALSE, pc |-> "none", created |-> "none", reported |-> FALSE,
      stop_pc |-> "idle", joined |-> "none", start |-> "none" ]

\* faulty variant: _run_event_tap goes on when no tap was created
run_event_tap_continues_Always(tap_created) == TRUE

\* if self._tap is None: print(...); return
run_event_tap_continues(tap_created) == tap_created

\* faulty variant: join without a timeout
join_returns_NoTimeout(thread_ended, timed_out) == thread_ended

\* self._thread.join(timeout=1.0) returns when the thread has ended or the
\* second has passed
join_returns(thread_ended, timed_out) == thread_ended \/ timed_out

\* parse_hotkey was not called
NotParsed == [ok |-> FALSE, err |-> "not parsed"]

\* no hotkey string is being parsed on its own
NoParsing ==
    [ input |-> << "" >>, variant |-> << "" >>, result |-> NotParsed,
      vresult |-> NotParsed ]

\* no event is being matched on its own; tested is whether the test was made
NoMatching ==
    [ hotkey_config |-> [modifier_mask |-> {}, keycode |-> NoKey],
      keycode |-> NoKey, flags |-> {}, vflags |-> {},
      tested |-> FALSE, result |-> FALSE, vresult |-> FALSE ]

\* no handler is followed statement by statement.  capture is where the
\* capture thread is in _on_hotkey_press or _on_hotkey_release ("loop": in
\* its run loop), ui where the UI thread is in _on_hotkey_change, successor
\* the thread of the listener that the rebind started; waiting is whether a
\* key event is waiting for the capture thread; worker is where a do_change
\* worker is, and ui_read and worker_read are the configuration as the UI
\* thread and the worker last read it from self.config
NoConfigRead == [hotkey |-> << "" >>, model |-> "none", clear_clipboard |-> FALSE]

NoThreads ==
    [ capture |-> "none", ui |-> "idle", successor |-> "none",
      restarted |-> FALSE, new_hotkey |-> << "" >>, constructed |-> "none",
      waiting |-> FALSE, audio |-> << >>,
      worker |-> "none", new_model |-> "none",
      ui_read |-> NoConfigRead, worker_read |-> NoConfigRead ]

\* no component is exercised on its own
UnitsIdle ==
    /\ rclient = NoClient
    /\ pasting = NoInject
    /\ lthread = NoThread
    /\ parsing = NoParsing
    /\ matching = NoMatching
    /\ threads = NoThreads

(***************************************************************************)
(* The daemon and its environment                                          *)
(***************************************************************************)
Init ==
    /\ physFlags = {}
    /\ keysDown = {}
    /\ hl = NewListener(parse_hotkey(InitHotkey))
    /\ lastEvent = NoEvent
    /\ cbLog = << >>
    /\ rec = NewRecorder
    /\ recording = FALSE
    /\ \E cc \in BOOLEAN :
          config = [hotkey |-> InitHotkey, model |-> "small", clear_clipboard |-> cc]
    /\ saved = config
    /\ dictionary \in Dictionaries
    /\ menubar = NoMenubar
    /\ calls = << >>
    /\ exc = "none"
    /\ strayListeners = 0
    /\ transcriber = config.model
    /\ usedModel = "none"
    /\ model_change_in_progress = FALSE
    /\ swaps = << >>
    /\ swapCalls = << >>
    /\ cached = {config.model}
    /\ modelMenu = [current_model |-> config.model, downloading |-> {}]
    /\ lastRequest = NoRequest
    /\ UnitsIdle

\* Hanasu.run: the menu bar is installed and the listener started
Run ==
    /\ ~menubar.installed
    /\ menubar' = [installed |-> TRUE, is_recording |-> FALSE,
                   hotkey_display |-> config.hotkey]
    /\ hl' = HL_start(hl)
    /\ UNCHANGED << physVars, lastEvent, cbLog, rec, recording, config, saved,
                    dictionary, calls >>
    /\ UNCHANGED << rebindVars, swapVars, usedModel, unitVars >>

\* the user presses or releases a modifier key (no key event reaches the tap)
ModDown(m) ==
    /\ m \notin physFlags
    /\ physFlags' = physFlags \cup {m}
    /\ UNCHANGED << keysDown, hl, lastEvent, cbLog, rec, appVars >>
    /\ UNCHANGED << rebindVars, swapVars, usedModel, unitVars >>

ModUp(m) ==
    /\ m \in physFlags
    /\ physFlags' = physFlags \ {m}
    /\ UNCHANGED << keysDown, hl, lastEvent, cbLog, rec, appVars >>
    /\ UNCHANGED << rebindVars, swapVars, usedModel, unitVars >>

\* the event tap hands an event to the listener's callback, if it is listening
Deliver(event_type, keycode, flags) ==
    IF Listening(hl)
    THEN EventCallback(event_type, keycode, flags)
    ELSE UNCHANGED << hl, lastEvent, cbLog, rec, appVars, usedModel >>

\* the user presses key k, or holds it and the keyboard repeats it
KeyDown(k) ==
    /\ Len(calls) < MaxCalls
    /\ keysDown' = keysDown \cup {k}
    /\ UNCHANGED << physFlags, rebindVars, swapVars, unitVars >>
    /\ \E inc \in SUBSET IncidentalFlags :
          Deliver("KeyDown", KEYCODE_MAP[k], physFlags \cup inc)

\* the user releases key k
KeyUp(k) ==
    /\ Len(calls) < MaxCalls
    /\ k \in keysDown
    /\ keysDown' = keysDown \ {k}
    /\ UNCHANGED << physFlags, rebindVars, swapVars, unitVars >>
    /\ \E inc \in SUBSET IncidentalFlags :
          Deliver("KeyUp", KEYCODE_MAP[k], physFlags \cup inc)

\* the system disabled the tap for being slow and tells the callback
TapDisabledByTimeout ==
    /\ Listening(hl)
    /\ EventCallback("TapDisabledByTimeout", NoKey, {})
    /\ UNCHANGED << physVars, rebindVars, swapVars, unitVars >>

\* the audio thread of an open stream delivers a chunk of n samples
AudioChunk(n) ==
    /\ rec.open > 0
    /\ Len(rec.buffer) < MaxChunks
    /\ rec' = Recorder_audio_callback(rec, << NumStarts, n >>)
    /\ UNCHANGED << physVars, hl, lastEvent, cbLog, appVars >>
    /\ UNCHANGED << rebindVars, swapVars, usedModel, unitVars >>

\* the user submits a new hotkey in the menu bar's dialog
RebindFromMenu(h) ==
    /\ menubar.installed
    /\ Len(calls) < MaxCalls
    /\ OnHotkeyChange(h)
    /\ UNCHANGED << physVars, lastEvent, swapVars, usedModel, unitVars >>

\* a caller of the public method change_hotkey
RebindByCall(h) ==
    /\ menubar.installed
    /\ Len(calls) < MaxCalls
    /\ ChangeHotkey(h)
    /\ UNCHANGED << physVars, lastEvent, swapVars, usedModel, unitVars >>

Next ==
    \/ Run
    \/ \E m \in PhysMods : ModDown(m)
    \/ \E m \in PhysMods : ModUp(m)
    \/ \E k \in PhysKeys : KeyDown(k)
    \/ \E k \in PhysKeys : KeyUp(k)
    \/ TapDisabledByTimeout
    \/ \E n \in ChunkSizes : AudioChunk(n)
    \/ \E h \in HotkeyInputs : RebindFromMenu(h)
    \/ \E h \in HotkeyInputs : RebindByCall(h)

Spec == Init /\ [][Next]_vars

(***************************************************************************)
(* The daemon while hotkeys are rebound, with a silent microphone: the     *)
(* audio thread delivers no chunk, so every recording is empty.            *)
(***************************************************************************)
RebindNext ==
    \/ Run
    \/ \E m \in PhysMods : ModDown(m)
    \/ \E m \in PhysMods : ModUp(m)
    \/ \E k \in PhysKeys : KeyDown(k)
    \/ \E k \in PhysKeys : KeyUp(k)
    \/ TapDisabledByTimeout
    \/ \E h \in HotkeyInputs : RebindFromMenu(h)
    \/ \E h \in HotkeyInputs : RebindByCall(h)

SpecRebind == Init /\ [][RebindNext]_vars

(***************************************************************************)
(* The daemon while the user switches models: the menu bar is installed,   *)
(* the listener runs, the user holds the hotkey's modifier and taps its    *)
(* key, and picks models in the menu.                                      *)
(***************************************************************************)
\* the longest list of swap workers after which no further swap is begun
MaxSwaps == 2
\* models a change_model request may carry
ModelInputs == {"tiny", "medium", "small", "huge"}
\* the models in the local cache at startup
InitCached == {"small", "medium"}
\* the key the user taps
SwapKeys == {"d"}
\* size of the chunks the audio thread delivers
SwapChunkSizes == {MIN_SAMPLES}

SwapInit ==
    /\ physFlags = {"Command"}
    /\ keysDown = {}
    /\ hl = HL_start(NewListener(parse_hotkey(InitHotkey)))
    /\ lastEvent = NoEvent
    /\ cbLog = << >>
    /\ rec = NewRecorder
    /\ recording = FALSE
    /\ config = [hotkey |-> InitHotkey, model |-> "small", clear_clipboard |-> FALSE]
    /\ saved = config
    /\ dictionary = [terms |-> << >>, replacements |-> {}]
    /\ menubar = [installed |-> TRUE, is_recording |-> FALSE,
                  hotkey_display |-> config.hotkey]
    /\ calls = << >>
    /\ exc = "none"
    /\ strayListeners = 0
    /\ transcriber = config.model
    /\ usedModel = "none"
    /\ model_change_in_progress = FALSE
    /\ swaps = << >>
    /\ swapCalls = << >>
    /\ cached = InitCached
    /\ modelMenu = [current_model |-> config.model, downloading |-> {}]
    /\ lastRequest = NoRequest
    /\ UnitsIdle

hotkeyVars == << physFlags, keysDown, hl, lastEvent, cbLog, rec, recording,
                dictionary, menubar, calls, exc, strayListeners, usedModel >>

\* the user picks model m in the menu: _on_model_change calls change_model
ModelRequest(m) ==
    /\ (ChangeModelRefusal(m) = "none") => NumSwaps < MaxSwaps
    /\ ChangeModel(m)
    /\ UNCHANGED << hotkeyVars, unitVars >>

\* the worker threads take their steps
WorkerIsCached(i) ==
    /\ i \in DOMAIN swaps
    /\ DoChange_IsCached(i)
    /\ UNCHANGED << hotkeyVars, lastRequest, unitVars >>
WorkerDownload(i, ok) ==
    /\ i \in DOMAIN swaps
    /\ DoChange_Download(i, ok)
    /\ UNCHANGED << hotkeyVars, lastRequest, unitVars >>
WorkerConstruct(i) ==
    /\ i \in DOMAIN swaps
    /\ DoChange_Construct(i)
    /\ UNCHANGED << hotkeyVars, lastRequest, unitVars >>
WorkerSave(i, ok) ==
    /\ i \in DOMAIN swaps
    /\ DoChange_Save(i, ok)
    /\ UNCHANGED << hotkeyVars, lastRequest, unitVars >>
WorkerNotify(i) ==
    /\ i \in DOMAIN swaps
    /\ DoChange_Notify(i)
    /\ UNCHANGED << hotkeyVars, lastRequest, unitVars >>
WorkerFinally(i) ==
    /\ i \in DOMAIN swaps
    /\ DoChange_Finally(i)
    /\ UNCHANGED << hotkeyVars, lastRequest, unitVars >>

SwapNext ==
    \/ \E k \in SwapKeys : KeyDown(k)
    \/ \E k \in SwapKeys : KeyUp(k)
    \/ \E n \in SwapChunkSizes : AudioChunk(n)
    \/ \E m \in ModelInputs : ModelRequest(m)
    \/ \E i \in 1..MaxSwaps : WorkerIsCached(i)
    \/ \E i \in 1..MaxSwaps, ok \in BOOLEAN : WorkerDownload(i, ok)
    \/ \E i \in 1..MaxSwaps : WorkerConstruct(i)
    \/ \E i \in 1..MaxSwaps, ok \in BOOLEAN : WorkerSave(i, ok)
    \/ \E i \in 1..MaxSwaps : WorkerNotify(i)
    \/ \E i \in 1..MaxSwaps : WorkerFinally(i)

SpecSwap == SwapInit /\ [][SwapNext]_vars

(***************************************************************************)
(* The Recorder on its own: a client calls start and stop in any order     *)
(* while the audio thread of every open stream delivers chunks.            *)
(***************************************************************************)
\* the daemon's variables other than the recorder and the listener
restVars == << physFlags, keysDown, lastEvent, cbLog, recording, config, saved,
              dictionary, menubar, calls, exc, strayListeners, transcriber,
              usedModel, model_change_in_progress, swaps, swapCalls, cached,
              modelMenu, lastRequest >>

\* the daemon as constructed, before run
DaemonConstructed ==
    /\ physFlags = {}
    /\ keysDown = {}
    /\ hl = NewListener(parse_hotkey(InitHotkey))
    /\ lastEvent = NoEvent
    /\ cbLog = << >>
    /\ rec = NewRecorder
    /\ recording = FALSE
    /\ config = [hotkey |-> InitHotkey, model |-> "small", clear_clipboard |-> FALSE]
    /\ saved = config
    /\ dictionary = [terms |-> << >>, replacements |-> {}]
    /\ menubar = NoMenubar
    /\ calls = << >>
    /\ exc = "none"
    /\ strayListeners = 0
    /\ transcriber = config.model
    /\ usedModel = "none"
    /\ model_change_in_progress = FALSE
    /\ swaps = << >>
    /\ swapCalls = << >>
    /\ cached = {config.model}
    /\ modelMenu = [current_model |-> config.model, downloading |-> {}]
    /\ lastRequest = NoRequest

RecorderInit ==
    /\ DaemonConstructed
    /\ rclient = NoClient
    /\ pasting = NoInject
    /\ lthread = NoThread
    /\ parsing = NoParsing
    /\ matching = NoMatching
    /\ threads = NoThreads

\* the client calls Recorder.start
ClientStart ==
    /\ rclient.pc = "idle"
    /\ rclient.starts + rclient.stops < MaxCalls
    /\ rec' = Recorder_start(rec)
    /\ rclient' = [rclient EXCEPT !.starts = @ + 1,
                                  !.startedSinceStop = TRUE,
                                  !.armed = TRUE,
                                  !.sinceStart = << >>]
    /\ UNCHANGED << restVars, hl, pasting, lthread, parsing, matching, threads >>

\* the client calls Recorder.stop, which disarms the recorder
ClientStopCall ==
    /\ rclient.pc = "idle"
    /\ rclient.starts + rclient.stops < MaxCalls
    /\ rec' = Recorder_disarm(rec)
    /\ rclient' = [rclient EXCEPT !.pc = "stopping", !.stops = @ + 1,
                                  !.armed = FALSE]
    /\ UNCHANGED << restVars, hl, pasting, lthread, parsing, matching, threads >>

\* Recorder.stop closes the stream and returns the buffer
ClientStopReturn ==
    /\ rclient.pc = "stopping"
    /\ rec' = Recorder_stop(rec)
    /\ rclient' = [rclient EXCEPT !.pc = "idle",
                                  !.ret = Recorder_stop_result(rec),
                                  !.startedSinceStop = FALSE]
    /\ UNCHANGED << restVars, hl, pasting, lthread, parsing, matching, threads >>

\* the audio thread of an open stream calls _audio_callback with n samples
ClientChunk(n) ==
    /\ rec.open > 0
    /\ Len(rec.buffer) < MaxChunks
    /\ rec' = Recorder_audio_callback(rec, << rclient.starts, n >>)
    /\ rclient' = [rclient EXCEPT !.sinceStart =
                       IF rclient.armed THEN Append(@, << rclient.starts, n >>)
                       ELSE @]
    /\ UNCHANGED << restVars, hl, pasting, lthread, parsing, matching, threads >>

RecorderNext ==
    \/ ClientStart
    \/ ClientStopCall
    \/ ClientStopReturn
    \/ \E n \in ChunkSizes : ClientChunk(n)

SpecRecorder == RecorderInit /\ [][RecorderNext]_vars

(***************************************************************************)
(* inject_text on its own: a caller injects texts one after the other      *)
(* while the user presses and releases modifier keys.                      *)
(***************************************************************************)
\* texts a caller may inject
InjectTexts == {"", " ", "hi"}
\* what the pasteboard may hold before the first call
Clipboards == {"", "old"}

InjectInit ==
    /\ DaemonConstructed
    /\ rclient = NoClient
    /\ \E c \in Clipboards : pasting = [NoInject EXCEPT !.clipboard = c]
    /\ lthread = NoThread
    /\ parsing = NoParsing
    /\ matching = NoMatching
    /\ threads = NoThreads

injectFrame == << keysDown, hl, lastEvent, cbLog, rec, appVars, rebindVars,
                 swapVars, usedModel, rclient, lthread, parsing, matching,
                 threads >>

InjectCall(text, clear_after) ==
    /\ pasting.pc \in {"idle", "returned"}
    /\ pasting' = inject_text_begin(pasting, text, clear_after)
    /\ UNCHANGED << physFlags, injectFrame >>

InjectWait(timed_out) ==
    /\ pasting.pc = "wait"
    /\ wait_returns(physFlags, timed_out)
    /\ pasting' = inject_text_wait(pasting)
    /\ UNCHANGED << physFlags, injectFrame >>

InjectKeyDown(created) ==
    /\ pasting.pc = "key_down"
    /\ pasting' = inject_text_post(pasting, "KeyDown", created, "key_up")
    /\ UNCHANGED << physFlags, injectFrame >>

InjectKeyUp(created) ==
    /\ pasting.pc = "key_up"
    /\ pasting' = inject_text_post(pasting, "KeyUp", created, "clear")
    /\ UNCHANGED << physFlags, injectFrame >>

InjectReturn ==
    /\ pasting.pc = "clear"
    /\ pasting' = inject_text_end(pasting)
    /\ UNCHANGED << physFlags, injectFrame >>

InjectNext ==
    \/ \E text \in InjectTexts, clear_after \in BOOLEAN : InjectCall(text, clear_after)
    \/ \E timed_out \in BOOLEAN : InjectWait(timed_out)
    \/ \E created \in BOOLEAN : InjectKeyDown(created)
    \/ \E created \in BOOLEAN : InjectKeyUp(created)
    \/ InjectReturn
    \/ \E m \in PhysMods : ModDown(m)
    \/ \E m \in PhysMods : ModUp(m)

SpecInject == InjectInit /\ [][InjectNext]_vars

\* the wait of inject_text turn by turn of its loop
InjectPoll ==
    /\ pasting.pc = "wait"
    /\ pasting' = inject_text_poll(pasting, physFlags)
    /\ UNCHANGED << physFlags, injectFrame >>

\* a step of the thread that called inject_text
InjectProgress ==
    \/ InjectPoll
    \/ \E created \in BOOLEAN : InjectKeyDown(created)
    \/ \E created \in BOOLEAN : InjectKeyUp(created)
    \/ InjectReturn

InjectPollNext ==
    \/ \E text \in InjectTexts, clear_after \in BOOLEAN : InjectCall(text, clear_after)
    \/ InjectPoll
    \/ \E created \in BOOLEAN : InjectKeyDown(created)
    \/ \E created \in BOOLEAN : InjectKeyUp(created)
    \/ InjectReturn
    \/ \E m \in PhysMods : ModDown(m)
    \/ \E m \in PhysMods : ModUp(m)

\* the calling thread keeps running and its sleeps end; the user may hold a
\* modifier for ever
SpecInjectPoll ==
    InjectInit /\ [][InjectPollNext]_vars /\ WF_vars(InjectProgress)

(***************************************************************************)
(* The HotkeyListener on its own: it is started once, its thread creates   *)
(* the tap (or fails to), serves key events and may stay inside a          *)
(* callback; a caller stops it at any moment.                              *)
(***************************************************************************)
ListenerInit ==
    /\ DaemonConstructed
    /\ UnitsIdle

listenerFrame == << physVars, lastEvent, cbLog, rec, appVars, rebindVars,
                   swapVars, usedModel, rclient, pasting, parsing, matching,
                   threads >>

\* HotkeyListener.start
ListenerStart ==
    /\ lthread.pc = "none"
    /\ hl' = [hl EXCEPT !.running = TRUE]
    /\ lthread' = [lthread EXCEPT !.handle = TRUE, !.pc = "create_tap",
                                  !.start = "returned"]
    /\ UNCHANGED listenerFrame

\* _run_event_tap up to its loop: the tap is created and enabled, or the
\* system denies it
ThreadCreateTap(tap_created) ==
    /\ lthread.pc = "create_tap"
    /\ hl' = [hl EXCEPT !.tap = IF tap_created THEN "enabled" ELSE "none"]
    /\ lthread' = [lthread EXCEPT
                      !.created = IF tap_created THEN "ok" ELSE "failed",
                      !.reported = ~tap_created,
                      !.pc = IF run_event_tap_continues(tap_created)
                             THEN "loop" ELSE "ended"]
    /\ UNCHANGED listenerFrame

\* while self._running: the loop ends once the flag is cleared
ThreadLoopExit ==
    /\ lthread.pc = "loop"
    /\ ~hl.running
    /\ lthread' = [lthread EXCEPT !.pc = "ended"]
    /\ UNCHANGED << hl, listenerFrame >>

\* the user presses or releases a key: if the listener is listening, its run
\* loop hands the event to _event_callback once the thread is not inside
\* another callback; if it is not, the event passes the listener by
ThreadKeyDown(k) ==
    /\ lthread.pc = "in_callback" => ~Listening(hl)
    /\ KeyDown(k)

ThreadKeyUp(k) ==
    /\ lthread.pc = "in_callback" => ~Listening(hl)
    /\ KeyUp(k)

\* a callback of the listening thread does not return for a while, or ever
ThreadEnterCallback ==
    /\ lthread.pc = "loop"
    /\ Listening(hl)
    /\ lthread' = [lthread EXCEPT !.pc = "in_callback"]
    /\ UNCHANGED << hl, listenerFrame >>

ThreadLeaveCallback ==
    /\ lthread.pc = "in_callback"
    /\ lthread' = [lthread EXCEPT !.pc = "loop"]
    /\ UNCHANGED << hl, listenerFrame >>

\* HotkeyListener.stop: self._running = False
StopCall ==
    /\ lthread.stop_pc \in {"idle", "returned"}
    /\ hl' = [hl EXCEPT !.running = FALSE]
    /\ lthread' = [lthread EXCEPT !.stop_pc = "disable"]
    /\ UNCHANGED listenerFrame

\* if self._tap: CGEventTapEnable(self._tap, False)
StopDisable ==
    /\ lthread.stop_pc = "disable"
    /\ hl' = [hl EXCEPT !.tap = IF hl.tap = "none" THEN "none" ELSE "disabled"]
    /\ lthread' = [lthread EXCEPT !.stop_pc = "join"]
    /\ UNCHANGED listenerFrame

\* if self._thread: self._thread.join(timeout=1.0); self._thread = None
StopJoin(timed_out) ==
    /\ lthread.stop_pc = "join"
    /\ IF lthread.handle
       THEN /\ join_returns(lthread.pc = "ended", timed_out)
            /\ lthread' = [lthread EXCEPT
                              !.stop_pc = "returned",
                              !.handle = FALSE,
                              !.joined = IF lthread.pc = "ended"
                                         THEN "ended" ELSE "timeout"]
       ELSE lthread' = [lthread EXCEPT !.stop_pc = "returned"]
    /\ UNCHANGED << hl, listenerFrame >>

ListenerNext ==
    \/ ListenerStart
    \/ \E tap_created \in BOOLEAN : ThreadCreateTap(tap_created)
    \/ ThreadLoopExit
    \/ \E k \in PhysKeys : ThreadKeyDown(k)
    \/ \E k \in PhysKeys : ThreadKeyUp(k)
    \/ ThreadEnterCallback
    \/ ThreadLeaveCallback
    \/ StopCall
    \/ StopDisable
    \/ \E timed_out \in BOOLEAN : StopJoin(timed_out)
    \/ \E m \in PhysMods : ModDown(m)
    \/ \E m \in PhysMods : ModUp(m)

SpecListener == ListenerInit /\ [][ListenerNext]_vars

\* the caller of stop is a running thread and the second of the join passes:
\* the steps of stop are taken once they are possible.  Nothing makes the
\* listener's thread take a step.
SpecListenerFair ==
    /\ ListenerInit
    /\ [][ListenerNext]_vars
    /\ WF_vars(StopDisable)
    /\ WF_vars(\E timed_out \in BOOLEAN : StopJoin(timed_out))

(***************************************************************************)
(* parse_hotkey on its own: a hotkey string is chosen, some of its tokens  *)
(* are respelled (another letter case, another name of the same modifier)  *)
(* and both spellings are parsed.                                          *)
(***************************************************************************)
\* the most tokens a hotkey string has
MaxTokens == 3
\* the raw tokens of the strings that are parsed
ParseTokens == {"cmd", "shift", "alt", "d", "a", "bogus", "", " a "}
\* spellings that differ in the case of their letters only
CaseClasses ==
    { {"cmd", "CMD", "Cmd"}, {"command", "COMMAND"}, {"meta", "META"},
      {"shift", "SHIFT", "Shift"}, {"alt", "ALT"}, {"option", "Option"},
      {"d", "D"}, {"a", "A"} }
\* the spellings a token may be replaced by
Spellings == UNION CaseClasses

ParseInputs ==
    UNION { [1..n -> ParseTokens] : n \in 1..MaxTokens }

ParseInit ==
    /\ DaemonConstructed
    /\ rclient = NoClient
    /\ pasting = NoInject
    /\ lthread = NoThread
    /\ \E h \in ParseInputs :
          parsing = [input |-> h, variant |-> h, result |-> NotParsed,
                     vresult |-> NotParsed]
    /\ matching = NoMatching
    /\ threads = NoThreads

parseFrame == << physVars, hl, lastEvent, cbLog, rec, appVars, rebindVars,
                swapVars, usedModel, rclient, pasting, lthread, matching,
                threads >>

\* token i of the variant is written in another letter case
Recase(i, u) ==
    /\ parsing.result = NotParsed
    /\ i \in DOMAIN parsing.variant
    /\ u # parsing.variant[i]
    /\ \E c \in CaseClasses : parsing.variant[i] \in c /\ u \in c
    /\ parsing' = [parsing EXCEPT !.variant[i] = u]
    /\ UNCHANGED parseFrame

\* token i of the variant, a modifier, is replaced by another name that
\* MODIFIER_FLAGS gives the same flag
Realias(i, u) ==
    /\ parsing.result = NotParsed
    /\ i \in DOMAIN parsing.variant
    /\ u # parsing.variant[i]
    /\ parsing.variant[i] \in DOMAIN MODIFIER_FLAGS
    /\ u \in DOMAIN MODIFIER_FLAGS
    /\ MODIFIER_FLAGS[u] = MODIFIER_FLAGS[parsing.variant[i]]
    /\ parsing' = [parsing EXCEPT !.variant[i] = u]
    /\ UNCHANGED parseFrame

\* parse_hotkey is called on the string and on its variant
Parse ==
    /\ parsing.result = NotParsed
    /\ parsing' = [parsing EXCEPT !.result = parse_hotkey(parsing.input),
                                  !.vresult = parse_hotkey(parsing.variant)]
    /\ UNCHANGED parseFrame

ParseNext ==
    \/ \E i \in 1..MaxTokens, u \in Spellings : Recase(i, u)
    \/ \E i \in 1..MaxTokens, u \in Spellings : Realias(i, u)
    \/ Parse

SpecParse == ParseInit /\ [][ParseNext]_vars

(***************************************************************************)
(* parse_hotkey on a string and on a string of the same tokens in another  *)
(* order, or with one of its modifiers named once more                     *)
(***************************************************************************)
\* the raw tokens of the strings whose tokens are reordered
OrderTokens == {"cmd", "shift", "d", "a", ""}

OrderInputs ==
    UNION { [1..n -> OrderTokens] : n \in 1..MaxTokens }

OrderInit ==
    /\ DaemonConstructed
    /\ rclient = NoClient
    /\ pasting = NoInject
    /\ lthread = NoThread
    /\ \E h \in OrderInputs :
          parsing = [input |-> h, variant |-> h, result |-> NotParsed,
                     vresult |-> NotParsed]
    /\ matching = NoMatching
    /\ threads = NoThreads

\* tokens i and j of the variant change places
SwapTokens(i, j) ==
    /\ parsing.result = NotParsed
    /\ i \in DOMAIN parsing.variant
    /\ j \in DOMAIN parsing.variant
    /\ i < j
    /\ parsing.variant[i] # parsing.variant[j]
    /\ parsing' = [parsing EXCEPT !.variant[i] = parsing.variant[j],
                                  !.variant[j] = parsing.variant[i]]
    /\ UNCHANGED parseFrame

\* token i of the variant, a modifier, is named once more, by the name u of
\* the same flag
RepeatModifier(i, u) ==
    /\ parsing.result = NotParsed
    /\ i \in DOMAIN parsing.variant
    /\ Len(parsing.variant) = Len(parsing.input)
    /\ parsing.variant[i] \in DOMAIN MODIFIER_FLAGS
    /\ u \in DOMAIN MODIFIER_FLAGS
    /\ MODIFIER_FLAGS[u] = MODIFIER_FLAGS[parsing.variant[i]]
    /\ parsing' = [parsing EXCEPT !.variant = Append(@, u)]
    /\ UNCHANGED parseFrame

OrderNext ==
    \/ \E i \in 1..(MaxTokens + 1), j \in 1..(MaxTokens + 1) : SwapTokens(i, j)
    \/ \E i \in 1..MaxTokens, u \in DOMAIN MODIFIER_FLAGS : RepeatModifier(i, u)
    \/ Parse

SpecOrder == OrderInit /\ [][OrderNext]_vars

(***************************************************************************)
(* The test of _event_callback on its own: a hotkey and a key event are    *)
(* chosen, flags are added to a copy of the event, and both are tested.    *)
(***************************************************************************)
\* the hotkeys the listener is constructed with
MatchHotkeys == { <<"d">>, <<"cmd", "d">>, <<"shift", "a">>,
                  <<"ctrl", "alt", "d">> }
\* flag bits of a key event that are no modifier: caps lock, fn
EventIncidentalFlags == {"AlphaShift", "SecondaryFn"}
EventFlags == TrackedFlags \cup EventIncidentalFlags

MatchInit ==
    /\ DaemonConstructed
    /\ rclient = NoClient
    /\ pasting = NoInject
    /\ lthread = NoThread
    /\ parsing = NoParsing
    /\ \E h \in MatchHotkeys, k \in PhysKeys, f \in SUBSET EventFlags :
          matching = [ hotkey_config |-> NewListener(parse_hotkey(h)).hotkey_config,
                       keycode |-> KEYCODE_MAP[k], flags |-> f, vflags |-> f,
                       tested |-> FALSE, result |-> FALSE, vresult |-> FALSE ]
    /\ threads = NoThreads

matchFrame == << physVars, hl, lastEvent, cbLog, rec, appVars, rebindVars,
                swapVars, usedModel, rclient, pasting, lthread, parsing,
                threads >>

\* the copy of the event carries one more flag
AddFlag(f) ==
    /\ ~matching.tested
    /\ f \notin matching.vflags
    /\ matching' = [matching EXCEPT !.vflags = @ \cup {f}]
    /\ UNCHANGED matchFrame

\* the copy of the event carries one flag less
DropFlag(f) ==
    /\ ~matching.tested
    /\ f \in matching.vflags
    /\ matching' = [matching EXCEPT !.vflags = @ \ {f}]
    /\ UNCHANGED matchFrame

\* _event_callback tests the event and its copy
Match ==
    /\ ~matching.tested
    /\ matching' = [matching EXCEPT
          !.tested = TRUE,
          !.result = Matches(matching.hotkey_config, matching.keycode,
                             matching.flags),
          !.vresult = Matches(matching.hotkey_config, matching.keycode,
                              matching.vflags)]
    /\ UNCHANGED matchFrame

MatchNext ==
    \/ \E f \in EventFlags : AddFlag(f)
    \/ \E f \in EventIncidentalFlags : DropFlag(f)
    \/ Match

SpecMatch == MatchInit /\ [][MatchNext]_vars

(***************************************************************************)
(* The handlers statement by statement: _on_hotkey_press and                *)
(* _on_hotkey_release run on the capture thread, inside the listener's      *)
(* event callback; _on_hotkey_change runs on the UI thread.  Each action is *)
(* one statement of one handler, so the threads interleave between          *)
(* statements.                                                              *)
(***************************************************************************)
RaceInit ==
    /\ physFlags = {"Command"}
    /\ keysDown = {}
    /\ hl = HL_start(NewListener(parse_hotkey(InitHotkey)))
    /\ lastEvent = NoEvent
    /\ cbLog = << >>
    /\ rec = NewRecorder
    /\ recording = FALSE
    /\ config = [hotkey |-> InitHotkey, model |-> "small", clear_clipboard |-> FALSE]
    /\ saved = config
    /\ dictionary = [terms |-> << >>, replacements |-> {}]
    /\ menubar = [installed |-> TRUE, is_recording |-> FALSE,
                  hotkey_display |-> config.hotkey]
    /\ calls = << >>
    /\ exc = "none"
    /\ strayListeners = 0
    /\ transcriber = config.model
    /\ usedModel = "none"
    /\ model_change_in_progress = FALSE
    /\ swaps = << >>
    /\ swapCalls = << >>
    /\ cached = InitCached
    /\ modelMenu = [current_model |-> config.model, downloading |-> {}]
    /\ lastRequest = NoRequest
    /\ rclient = NoClient
    /\ pasting = NoInject
    /\ lthread = NoThread
    /\ parsing = NoParsing
    /\ matching = NoMatching
    /\ threads = [NoThreads EXCEPT !.capture = "loop"]

raceFrame == << physVars, lastEvent, cbLog, dictionary, rebindVars, swapVars,
               rclient, pasting, lthread, parsing, matching >>

\* the statements of the handlers the capture thread runs
HandlerPcs == { "press_check", "press_set", "press_start", "press_notify",
                "release_set", "release_stop", "release_notify",
                "release_transcribe" }

\* _running of the listener the capture thread belongs to: the daemon's
\* listener until the rebind starts another one
OldRunning ==
    IF threads.successor = "none" THEN hl.running ELSE threads.restarted

\* the tap hands the hotkey's key-down to the capture thread, whose
\* _event_callback calls _on_press
UserPress ==
    /\ threads.capture = "loop"
    /\ threads.successor = "none"
    /\ Listening(hl)
    /\ FiresPress(hl)
    /\ Len(calls) < MaxCalls
    /\ hl' = [hl EXCEPT !.hotkey_active = TRUE]
    /\ threads' = [threads EXCEPT !.capture = "press_check"]
    /\ UNCHANGED << rec, recording, config, saved, menubar, calls, usedModel,
                    raceFrame >>

\* the hotkey's key-up: _event_callback calls _on_release
UserRelease ==
    /\ threads.capture = "loop"
    /\ threads.successor = "none"
    /\ Listening(hl)
    /\ FiresRelease(hl)
    /\ hl' = [hl EXCEPT !.hotkey_active = FALSE]
    /\ threads' = [threads EXCEPT !.capture = "release_set"]
    /\ UNCHANGED << rec, recording, config, saved, menubar, calls, usedModel,
                    raceFrame >>

\* a key event arrives while the capture thread is inside a handler: the
\* callback that would answer it runs on that thread, so the event waits
KeyWaits ==
    /\ threads.capture \in HandlerPcs
    /\ hl.tap = "enabled"
    /\ ~threads.waiting
    /\ threads' = [threads EXCEPT !.waiting = TRUE]
    /\ UNCHANGED << hl, rec, recording, config, saved, menubar, calls,
                    usedModel, raceFrame >>

\* the handler returns into _event_callback, which returns to the run loop
BackToLoop(t) == [t EXCEPT !.capture = "loop", !.waiting = FALSE]

\* _on_hotkey_press: if self._recording: return
PressCheck ==
    /\ threads.capture = "press_check"
    /\ threads' = IF recording THEN BackToLoop(threads)
                  ELSE [threads EXCEPT !.capture = "press_set"]
    /\ UNCHANGED << hl, rec, recording, config, saved, menubar, calls,
                    usedModel, raceFrame >>

\* self._recording = True
PressSet ==
    /\ threads.capture = "press_set"
    /\ recording' = TRUE
    /\ threads' = [threads EXCEPT !.capture = "press_start"]
    /\ UNCHANGED << hl, rec, config, saved, menubar, calls, usedModel,
                    raceFrame >>

\* self.recorder.start()
PressStart ==
    /\ threads.capture = "press_start"
    /\ rec' = Recorder_start(rec)
    /\ calls' = Append(calls, Call("rec_start", ""))
    /\ threads' = [threads EXCEPT !.capture = "press_notify"]
    /\ UNCHANGED << hl, recording, config, saved, menubar, usedModel,
                    raceFrame >>

\* self._menubar_app.setRecording_(True)
PressNotify ==
    /\ threads.capture = "press_notify"
    /\ menubar' = SetRecording(menubar, TRUE)
    /\ calls' = calls \o SetRecordingCalls(menubar, TRUE)
    /\ threads' = BackToLoop(threads)
    /\ UNCHANGED << hl, rec, recording, config, saved, usedModel, raceFrame >>

\* _on_hotkey_release: self._recording = False
ReleaseSet ==
    /\ threads.capture = "release_set"
    /\ recording' = FALSE
    /\ threads' = [threads EXCEPT !.capture = "release_stop"]
    /\ UNCHANGED << hl, rec, config, saved, menubar, calls, usedModel,
                    raceFrame >>

\* audio = self.recorder.stop()
ReleaseStop ==
    /\ threads.capture = "release_stop"
    /\ rec' = Recorder_stop(rec)
    /\ calls' = Append(calls, Call("rec_stop", "_on_hotkey_release"))
    /\ threads' = [threads EXCEPT !.capture = "release_notify",
                                  !.audio = Recorder_stop_result(rec)]
    /\ UNCHANGED << hl, recording, config, saved, menubar, usedModel,
                    raceFrame >>

\* self._menubar_app.setRecording_(False)
ReleaseNotify ==
    /\ threads.capture = "release_notify"
    /\ menubar' = SetRecording(menubar, FALSE)
    /\ calls' = calls \o SetRecordingCalls(menubar, FALSE)
    /\ threads' = [threads EXCEPT !.capture = "release_transcribe"]
    /\ UNCHANGED << hl, rec, recording, config, saved, usedModel, raceFrame >>

\* the length tests, self.transcriber.transcribe(audio) and inject_text(text),
\* after which the handler returns
ReleaseTranscribe(raw) ==
    /\ threads.capture = "release_transcribe"
    /\ calls' = calls \o ReleaseTail(threads.audio, raw)
    /\ usedModel' = IF AudioLen(threads.audio) >= MIN_SAMPLES
                    THEN transcriber
                    ELSE usedModel
    /\ threads' = [BackToLoop(threads) EXCEPT !.audio = << >>]
    /\ UNCHANGED << hl, rec, recording, config, saved, menubar, raceFrame >>

\* _run_event_tap: while self._running fails, the thread disables its tap
\* and ends
CaptureExit ==
    /\ threads.capture = "loop"
    /\ ~OldRunning
    /\ threads' = [threads EXCEPT !.capture = "ended"]
    /\ UNCHANGED << hl, rec, recording, config, saved, menubar, calls,
                    usedModel, raceFrame >>

\* an open input stream delivers a chunk to Recorder._audio_callback
RaceChunk(n) ==
    /\ rec.open > 0
    /\ Len(rec.buffer) < MaxChunks
    /\ rec' = Recorder_audio_callback(rec, << NumStarts, n >>)
    /\ UNCHANGED << hl, recording, config, saved, menubar, calls, usedModel,
                    threads, raceFrame >>

\* _on_hotkey_change(new_hotkey) on the UI thread: the test for a blank
\* string, and if self._recording
RebindBegin(new_hotkey) ==
    /\ threads.ui = "idle"
    /\ threads' = [threads EXCEPT
                      !.new_hotkey = new_hotkey,
                      !.ui = IF IsBlank(new_hotkey) THEN "done"
                             ELSE IF recording THEN "clear_flag"
                             ELSE "stop_listener"]
    /\ UNCHANGED << hl, rec, recording, config, saved, menubar, calls,
                    usedModel, raceFrame >>

\* self._recording = False
RebindClearFlag ==
    /\ threads.ui = "clear_flag"
    /\ recording' = FALSE
    /\ threads' = [threads EXCEPT !.ui = "rec_stop"]
    /\ UNCHANGED << hl, rec, config, saved, menubar, calls, usedModel,
                    raceFrame >>

\* self.recorder.stop()
RebindRecStop ==
    /\ threads.ui = "rec_stop"
    /\ rec' = Recorder_stop(rec)
    /\ calls' = Append(calls, Call("rec_stop", "_on_hotkey_change"))
    /\ threads' = [threads EXCEPT !.ui = "notify"]
    /\ UNCHANGED << hl, recording, config, saved, menubar, usedModel,
                    raceFrame >>

\* self._menubar_app.setRecording_(False)
RebindNotify ==
    /\ threads.ui = "notify"
    /\ menubar' = SetRecording(menubar, FALSE)
    /\ calls' = calls \o SetRecordingCalls(menubar, FALSE)
    /\ threads' = [threads EXCEPT !.ui = "stop_listener"]
    /\ UNCHANGED << hl, rec, recording, config, saved, usedModel, raceFrame >>

\* self.hotkey_listener.stop(): _running = False and the tap is disabled
RebindStopListener ==
    /\ threads.ui = "stop_listener"
    /\ hl' = HL_stop(hl)
    /\ threads' = [threads EXCEPT !.ui = "join"]
    /\ UNCHANGED << rec, recording, config, saved, menubar, calls, usedModel,
                    raceFrame >>

\* the capture thread is in the release handler's transcription and injection
Transcribing ==
    /\ threads.capture = "release_transcribe"
    /\ AudioLen(threads.audio) >= MIN_SAMPLES

\* stop's self._thread.join(timeout=1.0).  The run loop looks at _running
\* every 0.1 s and the other statements of the handlers are short, so the
\* wait times out only on a thread that is transcribing and injecting
RebindJoin(timed_out) ==
    /\ threads.ui = "join"
    /\ timed_out => Transcribing
    /\ join_returns(threads.capture = "ended", timed_out)
    /\ threads' = [threads EXCEPT !.ui = "construct"]
    /\ UNCHANGED << hl, rec, recording, config, saved, menubar, calls,
                    usedModel, raceFrame >>

\* new_listener = HotkeyListener(hotkey=new_hotkey, ...), in the try
RebindConstruct ==
    /\ threads.ui = "construct"
    /\ threads' = IF parse_hotkey(threads.new_hotkey).ok
                  THEN [threads EXCEPT !.ui = "save", !.constructed = "ok"]
                  ELSE [threads EXCEPT !.ui = "restart",
                                       !.constructed = "failed"]
    /\ UNCHANGED << hl, rec, recording, config, saved, menubar, calls,
                    usedModel, raceFrame >>

\* the except branch: self.hotkey_listener.start() on the listener that was
\* stopped, which sets _running and starts another thread; return
RebindRestart ==
    /\ threads.ui = "restart"
    /\ hl' = HL_start(hl)
    /\ threads' = [threads EXCEPT !.ui = "done", !.successor = "loop",
                                  !.restarted = TRUE]
    /\ UNCHANGED << rec, recording, config, saved, menubar, calls, usedModel,
                    raceFrame >>

\* self.config = Config(hotkey=new_hotkey, ...); save_config(self.config)
RebindSave ==
    /\ threads.ui = "save"
    /\ config' = [config EXCEPT !.hotkey = threads.new_hotkey]
    /\ saved' = config'
    /\ calls' = Append(calls, Call("save_config", config'))
    /\ threads' = [threads EXCEPT !.ui = "start_new"]
    /\ UNCHANGED << hl, rec, recording, menubar, usedModel, raceFrame >>

\* self.hotkey_listener = new_listener; self.hotkey_listener.start()
RebindStartNew ==
    /\ threads.ui = "start_new"
    /\ hl' = HL_start(NewListener(parse_hotkey(threads.new_hotkey)))
    /\ threads' = [threads EXCEPT !.ui = "set_hotkey", !.successor = "loop"]
    /\ UNCHANGED << rec, recording, config, saved, menubar, calls, usedModel,
                    raceFrame >>

\* self._menubar_app.setHotkey_(new_hotkey)
RebindSetHotkey ==
    /\ threads.ui = "set_hotkey"
    /\ menubar' = SetHotkey(menubar, threads.new_hotkey)
    /\ calls' = calls \o SetHotkeyCalls(menubar, threads.new_hotkey)
    /\ threads' = [threads EXCEPT !.ui = "done"]
    /\ UNCHANGED << hl, rec, recording, config, saved, usedModel, raceFrame >>

RaceNext ==
    \/ UserPress
    \/ UserRelease
    \/ KeyWaits
    \/ PressCheck
    \/ PressSet
    \/ PressStart
    \/ PressNotify
    \/ ReleaseSet
    \/ ReleaseStop
    \/ ReleaseNotify
    \/ \E raw \in RawTexts : ReleaseTranscribe(raw)
    \/ CaptureExit
    \/ \E n \in SwapChunkSizes : RaceChunk(n)
    \/ \E h \in HotkeyInputs : RebindBegin(h)
    \/ RebindClearFlag
    \/ RebindRecStop
    \/ RebindNotify
    \/ RebindStopListener
    \/ \E timed_out \in BOOLEAN : RebindJoin(timed_out)
    \/ RebindConstruct
    \/ RebindRestart
    \/ RebindSave
    \/ RebindStartNew
    \/ RebindSetHotkey

SpecRace == RaceInit /\ [][RaceNext]_vars

(***************************************************************************)
(* The two writers of self.config: _on_hotkey_change on the UI thread and   *)
(* a do_change worker.  Each builds a new Config from fields it reads from  *)
(* self.config and then stores it, and each passes self.config to           *)
(* save_config, which writes the file: four steps per writer, between which *)
(* the other thread may run.                                                *)
(***************************************************************************)
configFrame == << physVars, lastEvent, cbLog, rec, recording, dictionary,
                 calls, rebindVars, swaps, swapCalls, lastRequest, usedModel,
                 rclient, pasting, lthread, parsing, matching >>

\* _on_hotkey_change up to its assignment of self.config: the blank test,
\* the listener's stop, the construction of the new listener and, when that
\* fails, the restart of the old one
ConfigRebind(new_hotkey) ==
    /\ threads.ui = "idle"
    /\ ~recording
    /\ IF IsBlank(new_hotkey)
       THEN /\ threads' = [threads EXCEPT !.ui = "done",
                                          !.new_hotkey = new_hotkey]
            /\ UNCHANGED hl
       ELSE IF parse_hotkey(new_hotkey).ok
       THEN /\ threads' = [threads EXCEPT !.ui = "read",
                                          !.new_hotkey = new_hotkey,
                                          !.constructed = "ok"]
            /\ hl' = HL_stop(hl)
       ELSE /\ threads' = [threads EXCEPT !.ui = "done",
                                          !.new_hotkey = new_hotkey,
                                          !.constructed = "failed"]
            /\ hl' = HL_start(HL_stop(hl))
    /\ UNCHANGED << config, saved, menubar, transcriber,
                    model_change_in_progress, cached, modelMenu, configFrame >>

\* the arguments of Config(hotkey=new_hotkey, model=self.config.model, ...)
\* are read from self.config
ConfigRebindRead ==
    /\ threads.ui = "read"
    /\ threads' = [threads EXCEPT !.ui = "write", !.ui_read = config]
    /\ UNCHANGED << hl, config, saved, menubar, transcriber,
                    model_change_in_progress, cached, modelMenu, configFrame >>

\* self.config = the Config built from what was read
ConfigRebindWrite ==
    /\ threads.ui = "write"
    /\ config' = [threads.ui_read EXCEPT !.hotkey = threads.new_hotkey]
    /\ threads' = [threads EXCEPT !.ui = "save_read"]
    /\ UNCHANGED << hl, saved, menubar, transcriber,
                    model_change_in_progress, cached, modelMenu, configFrame >>

\* save_config(self.config, ...): the argument is read
ConfigRebindSaveRead ==
    /\ threads.ui = "save_read"
    /\ threads' = [threads EXCEPT !.ui = "save_write", !.ui_read = config]
    /\ UNCHANGED << hl, config, saved, menubar, transcriber,
                    model_change_in_progress, cached, modelMenu, configFrame >>

\* save_config writes the file
ConfigRebindSaveWrite ==
    /\ threads.ui = "save_write"
    /\ saved' = threads.ui_read
    /\ threads' = [threads EXCEPT !.ui = "start_new"]
    /\ UNCHANGED << hl, config, menubar, transcriber,
                    model_change_in_progress, cached, modelMenu, configFrame >>

\* the new listener is installed and started and the menu bar told
ConfigRebindStart ==
    /\ threads.ui = "start_new"
    /\ hl' = HL_start(NewListener(parse_hotkey(threads.new_hotkey)))
    /\ menubar' = SetHotkey(menubar, threads.new_hotkey)
    /\ threads' = [threads EXCEPT !.ui = "done"]
    /\ UNCHANGED << config, saved, transcriber, model_change_in_progress,
                    cached, modelMenu, configFrame >>

\* change_model, called by the menu on the UI thread (so not while that
\* thread is inside a rebind), admits the request and starts the worker
ConfigSwap(new_model) ==
    /\ threads.worker = "none"
    /\ threads.ui \in {"idle", "done"}
    /\ ChangeModelRefusal(new_model) = "none"
    /\ model_change_in_progress' = TRUE
    /\ threads' = [threads EXCEPT !.worker = "construct",
                                  !.new_model = new_model]
    /\ UNCHANGED << hl, config, saved, menubar, transcriber, cached,
                    modelMenu, configFrame >>

\* do_change: the download of a model that is not cached, and
\* self.transcriber = Transcriber(model=new_model, ...)
ConfigWorkerConstruct(ok) ==
    /\ threads.worker = "construct"
    /\ cached' = IF ok THEN cached \cup {threads.new_model} ELSE cached
    /\ transcriber' = threads.new_model
    /\ threads' = [threads EXCEPT !.worker = "read"]
    /\ UNCHANGED << hl, config, saved, menubar, model_change_in_progress,
                    modelMenu, configFrame >>

\* the arguments of Config(hotkey=self.config.hotkey, model=new_model, ...)
\* are read from self.config
ConfigWorkerRead ==
    /\ threads.worker = "read"
    /\ threads' = [threads EXCEPT !.worker = "write", !.worker_read = config]
    /\ UNCHANGED << hl, config, saved, menubar, transcriber,
                    model_change_in_progress, cached, modelMenu, configFrame >>

\* self.config = the Config built from what was read
ConfigWorkerWrite ==
    /\ threads.worker = "write"
    /\ config' = [threads.worker_read EXCEPT !.model = threads.new_model]
    /\ threads' = [threads EXCEPT !.worker = "save_read"]
    /\ UNCHANGED << hl, saved, menubar, transcriber,
                    model_change_in_progress, cached, modelMenu, configFrame >>

\* save_config(self.config, ...): the argument is read
ConfigWorkerSaveRead ==
    /\ threads.worker = "save_read"
    /\ threads' = [threads EXCEPT !.worker = "save_write",
                                  !.worker_read = config]
    /\ UNCHANGED << hl, config, saved, menubar, transcriber,
                    model_change_in_progress, cached, modelMenu, configFrame >>

\* save_config writes the file
ConfigWorkerSaveWrite ==
    /\ threads.worker = "save_write"
    /\ saved' = threads.worker_read
    /\ threads' = [threads EXCEPT !.worker = "notify"]
    /\ UNCHANGED << hl, config, menubar, transcriber,
                    model_change_in_progress, cached, modelMenu, configFrame >>

\* the menu bar is told the new model, and the finally clears the flag
ConfigWorkerFinish ==
    /\ threads.worker = "notify"
    /\ modelMenu' = SetCurrentModel(modelMenu, threads.new_model)
    /\ model_change_in_progress' = FlagAfterDoChange(threads)
    /\ threads' = [threads EXCEPT !.worker = "done"]
    /\ UNCHANGED << hl, config, saved, menubar, transcriber, cached,
                    configFrame >>

ConfigNext ==
    \/ \E h \in HotkeyInputs : ConfigRebind(h)
    \/ ConfigRebindRead
    \/ ConfigRebindWrite
    \/ ConfigRebindSaveRead
    \/ ConfigRebindSaveWrite
    \/ ConfigRebindStart
    \/ \E m \in ModelInputs : ConfigSwap(m)
    \/ \E ok \in BOOLEAN : ConfigWorkerConstruct(ok)
    \/ ConfigWorkerRead
    \/ ConfigWorkerWrite
    \/ ConfigWorkerSaveRead
    \/ ConfigWorkerSaveWrite
    \/ ConfigWorkerFinish

SpecConfig == RaceInit /\ [][ConfigNext]_vars

(***************************************************************************)
(* Properties                                                              *)
(***************************************************************************)
\* the calls a step appended to the log
NewCalls == SubSeq(calls', Len(calls) + 1, Len(calls'))

\* the entries of a sequence of calls whose operation is op, in order
CallsOf(log, op) == SelectSeq(log, LAMBDA c : c.op = op)

\* the step is the listener firing on_press / on_release
PressStep == cbLog' = Append(cbLog, "on_press")
ReleaseStep == cbLog' = Append(cbLog, "on_release")

\* the step is a rebind request carrying hotkey string h
MenuRebindStep(h) == RebindFromMenu(h)
CallRebindStep(h) == RebindByCall(h)

\* C1: the callbacks a listener fires alternate strictly, starting with
\* on_press: the i-th callback is on_press for odd i and on_release for even i,
\* so repeated matching key-downs fire on_press once and a matching key-up
\* with no un-released press fires nothing.
C1_Alternation ==
    \A i \in DOMAIN cbLog :
        cbLog[i] = IF i % 2 = 1 THEN "on_press" ELSE "on_release"

\* a matching key-down was swallowed without firing, after the one press
C1_Witness ==
    /\ cbLog = << "on_press" >>
    /\ lastEvent.type = "KeyDown"
    /\ lastEvent.ret = "None"
    /\ lastEvent.fired = "none"

\* C2: a press handled while Idle sets the state to Recording, calls
\* Recorder.start() once and sends setRecording(true) once; a press handled
\* while Recording changes nothing: no call, no notification, still Recording.
C2_PressHandler ==
    [][ PressStep =>
          IF ~recording
          THEN /\ recording'
               /\ NewCalls = << Call("rec_start", ""), Call("setRecording", TRUE) >>
               /\ rec'.recording /\ rec'.stream /\ rec'.open = rec.open + 1
               /\ menubar'.is_recording
          ELSE /\ recording'
               /\ NewCalls = << >>
               /\ rec' = rec
               /\ menubar' = menubar ]_vars

\* a press was ignored while Recording: the listener installed by the last
\* rebind fired on_press and nothing was logged after the rebind's calls
C2_Witness ==
    /\ recording
    /\ cbLog = << "on_press" >>
    /\ calls # << >>
    /\ calls[Len(calls)].op = "setHotkey"
    /\ CallsOf(calls, "rec_start") # << >>

\* C3: a release that ends a recording of at least MIN_SAMPLES samples makes
\* exactly one transcribe call, with the buffer captured since the press and
\* the dictionary, and after it exactly one inject call with the returned text
\* and config.clear_clipboard if that text is not empty, none if it is empty.
C3_ReleaseTranscribesAndInjects ==
    [][ ( /\ ReleaseStep
          /\ recording
          /\ AudioLen(rec.buffer) >= MIN_SAMPLES )
        => LET tr  == CallsOf(NewCalls, "transcribe")
               inj == CallsOf(NewCalls, "inject")
           IN /\ Len(tr) = 1
              /\ tr[1].arg = << rec.buffer, dictionary >>
              /\ \A i \in DOMAIN rec.buffer : rec.buffer[i][1] = NumStarts
              /\ IF tr[1].ret # ""
                 THEN /\ Len(inj) = 1
                      /\ inj[1].arg = << tr[1].ret, config.clear_clipboard >>
                      /\ NewCalls[Len(NewCalls)] = inj[1]
                      /\ NewCalls[Len(NewCalls) - 1] = tr[1]
                 ELSE Len(inj) = 0 ]_vars

\* a recording of two chunks was transcribed and the rewritten text injected
C3_Witness ==
    /\ Len(calls) >= 2
    /\ calls[Len(calls)].op = "inject"
    /\ calls[Len(calls)].arg[1] = "hello"
    /\ calls[Len(calls) - 1].op = "transcribe"
    /\ Len(calls[Len(calls) - 1].arg[1]) = 2

\* C4: a release hands the recorder's buffer of n samples to the transcriber
\* if and only if n >= MIN_SAMPLES; below that it makes no transcribe and no
\* inject call.
C4_MinimumLength ==
    [][ ReleaseStep =>
          LET n == AudioLen(Recorder_stop_result(rec)) IN
          /\ (Len(CallsOf(NewCalls, "transcribe")) = 1) <=> (n >= MIN_SAMPLES)
          /\ (n < MIN_SAMPLES) =>
                /\ CallsOf(NewCalls, "transcribe") = << >>
                /\ CallsOf(NewCalls, "inject") = << >> ]_vars

\* a buffer of exactly MIN_SAMPLES samples was transcribed
C4_Witness ==
    \E i \in DOMAIN calls :
        /\ calls[i].op = "transcribe"
        /\ AudioLen(calls[i].arg[1]) = MIN_SAMPLES

\* C5: a release handled while Idle leaves the state Idle and makes no
\* transcribe and no inject call, whatever was recorded before.
C5_IdleReleaseIsNoOp ==
    [][ (ReleaseStep /\ ~recording) =>
          /\ ~recording'
          /\ CallsOf(NewCalls, "transcribe") = << >>
          /\ CallsOf(NewCalls, "inject") = << >> ]_vars

\* C6: in the log of calls, Recorder.start and Recorder.stop alternate
\* strictly, beginning with start.
C6_StartStopAlternate ==
    LET rs == SelectSeq(calls, LAMBDA c : c.op \in {"rec_start", "rec_stop"})
    IN \A i \in DOMAIN rs :
          rs[i].op = IF i % 2 = 1 THEN "rec_start" ELSE "rec_stop"

\* C7: when the user releases the hotkey's key after a hold for which the
\* listener fired on_press, the listener fires on_release, whichever of the
\* hotkey's modifier keys are still held at that moment (no other modifier is).
C7_HoldEndsWithRelease ==
    [][ \A k \in PhysKeys :
          ( /\ KeyUp(k)
            /\ Listening(hl)
            /\ KEYCODE_MAP[k] = hl.hotkey_config.keycode
            /\ physFlags \subseteq hl.hotkey_config.modifier_mask
            /\ cbLog # << >>
            /\ cbLog[Len(cbLog)] = "on_press" )
          => ReleaseStep ]_vars

\* the step hands an event to the callback of a listening listener
EventStep ==
    /\ Listening(hl)
    /\ \/ \E k \in PhysKeys : KeyDown(k) \/ KeyUp(k)
       \/ TapDisabledByTimeout

\* C8: a key-down or key-up event whose key code and modifiers, masked to the
\* four tracked ones, equal the hotkey's is swallowed whatever the held flag;
\* any other event and the tap-disabled signal is returned unchanged, fires no
\* callback and leaves the held flag and the orchestrator alone.
C8_SwallowMatchPassOthers ==
    [][ EventStep =>
          LET e == lastEvent'
              match == /\ e.type \in {"KeyDown", "KeyUp"}
                       /\ e.keycode = hl.hotkey_config.keycode
                       /\ e.flags \cap {"Command", "Shift", "Alternate", "Control"}
                             = hl.hotkey_config.modifier_mask
          IN IF match
             THEN e.ret = "None"
             ELSE /\ e.ret = "event"
                  /\ e.fired = "none"
                  /\ cbLog' = cbLog
                  /\ hl'.hotkey_active = hl.hotkey_active
                  /\ calls' = calls /\ recording' = recording /\ rec' = rec ]_vars

\* a matching key-up was swallowed although the held flag was false, with
\* caps lock on
C8_Witness ==
    /\ lastEvent.type = "KeyUp"
    /\ lastEvent.ret = "None"
    /\ lastEvent.fired = "none"
    /\ "AlphaShift" \in lastEvent.flags
    /\ ~hl.hotkey_active

\* the index in the log of the r-th call of Recorder.start
StartIdx(r) ==
    CHOOSE i \in DOMAIN calls :
        /\ calls[i].op = "rec_start"
        /\ Cardinality({j \in 1..i : calls[j].op = "rec_start"}) = r

\* the recordings that were ended by a rebind request
CancelledRecordings ==
    { r \in 1..NumStarts :
        \E j \in DOMAIN calls :
            /\ j > StartIdx(r)
            /\ calls[j] = Call("rec_stop", "_on_hotkey_change")
            /\ \A m \in (StartIdx(r) + 1)..(j - 1) : calls[m].op # "rec_stop" }

\* no transcribe call was handed samples of a cancelled recording
CancelledAudioDiscarded ==
    \A j \in DOMAIN calls :
        calls[j].op = "transcribe" =>
            \A i \in DOMAIN calls[j].arg[1] :
                calls[j].arg[1][i][1] \notin CancelledRecordings

\* C9: a rebind request from the menu bar that carries a hotkey string and
\* arrives while Recording stops the recorder, sets the state to Idle and sends
\* setRecording(false); and the samples of a recording cancelled that way are
\* never handed to the transcriber, by that request or by a later event.
C9_RebindCancelsAndDiscards ==
    [][ /\ \A h \in HotkeyInputs :
              (MenuRebindStep(h) /\ ~IsBlank(h) /\ recording) =>
                  /\ ~recording'
                  /\ ~rec'.recording /\ rec'.open = 0
                  /\ ~menubar'.is_recording
                  /\ CallsOf(NewCalls, "transcribe") = << >>
        /\ CancelledAudioDiscarded' ]_vars

\* C10: after a rebind request whose hotkey string does not parse, the
\* listener that was running before is still installed and listening, so the
\* old hotkey still fires the handlers.
C10_FailedRebindKeepsListener ==
    [][ \A h \in HotkeyInputs :
          ( /\ MenuRebindStep(h) \/ CallRebindStep(h)
            /\ ~parse_hotkey(h).ok
            /\ Listening(hl) )
          => /\ Listening(hl')
             /\ hl'.hotkey_config = hl.hotkey_config ]_vars

\* the step is a rebind request, by either operation, returning to its caller
\* (a rebind leaves the keyboard and the last event alone)
RebindStep(h) ==
    /\ UNCHANGED << physVars, lastEvent >>
    /\ MenuRebindStep(h) \/ CallRebindStep(h)

\* the hotkey strings of HotkeyInputs that parse, and those that do not
ParsableInputs == {h \in HotkeyInputs : parse_hotkey(h).ok}
UnparsableInputs == {h \in HotkeyInputs : ~parse_hotkey(h).ok}

\* C11: after a rebind request has returned, whether it succeeded or failed,
\* exactly one hotkey listener is installed and running: the current listener
\* is listening and no replaced listener was left running.
C11_OneListenerAfterRebind ==
    [][ \A h \in HotkeyInputs :
          (RebindStep(h) /\ Listening(hl))
          => /\ Listening(hl')
             /\ strayListeners' = 0 ]_vars

C13_SuccessfulRebind ==
    [][ \A h \in ParsableInputs :
          RebindStep(h)
          => LET parsed == parse_hotkey(h)
                 saves  == CallsOf(NewCalls, "save_config")
             IN /\ hl'.hotkey_config = [modifier_mask |-> parsed.modifier_mask,
                                        keycode |-> parsed.keycode]
                /\ Listening(hl')
                /\ ~hl'.hotkey_active
                /\ config'.hotkey = h
                /\ Len(saves) = 1
                /\ saves[1].arg = config'
                /\ saved' = config'
                /\ CallsOf(NewCalls, "setHotkey") = << Call("setHotkey", h) >>
                /\ menubar'.hotkey_display = h
                /\ strayListeners' = 0
                /\ exc' = "none" ]_vars

\* the hotkey was rebound from cmd+d to shift+a, and the new listener has
\* since fired on_press
C13_Witness ==
    /\ config.hotkey = << "SHIFT", " a " >>
    /\ saved = config
    /\ menubar.hotkey_display = << "SHIFT", " a " >>
    /\ hl.hotkey_config = [modifier_mask |-> {"Shift"}, keycode |-> 0]
    /\ cbLog = << "on_press" >>
    /\ strayListeners = 0

(***************************************************************************)
(* Properties of the model swap, under SpecSwap                            *)
(***************************************************************************)
\* the step is a change_model request for model m
ModelRequestStep(m) == ModelRequest(m)

\* the step starts no worker, constructs no Transcriber and writes no
\* configuration
NoSwapEffect ==
    /\ swaps' = swaps
    /\ swapCalls' = swapCalls
    /\ transcriber' = transcriber
    /\ config' = config
    /\ saved' = saved
    /\ model_change_in_progress' = model_change_in_progress

\* the calls of worker id in a log, in order
CallsBy(log, id) == SelectSeq(log, LAMBDA c : c.by = id)

\* the calls of worker id in a log that replace the transcriber, write the
\* configuration or tell the menu bar the current model, in order
SwapTrail(log, id) ==
    SelectSeq(log, LAMBDA c : /\ c.by = id
                              /\ c.op \in {"Transcriber", "save_config",
                                            "setCurrentModel"})

\* C14: change_model(x) called while a recording is in progress constructs
\* no Transcriber, writes no configuration, starts no worker and leaves the
\* state Recording.
C14_RefusedWhileRecording ==
    [][ \A m \in ModelInputs :
          (ModelRequestStep(m) /\ recording)
          => /\ NoSwapEffect
             /\ recording'
             /\ rec' = rec ]_vars

\* a request for a valid other model was dropped because of the recording
C14_Witness ==
    /\ lastRequest = [model |-> "medium", result |-> "recording"]
    /\ recording
    /\ swaps = << >>
    /\ transcriber = "small"

DownloadFailed(w) == w.download = "failed" /\ w.exc = "none"

\* C16: when the download of a swap fails, then at the end of the attempt the
\* active transcriber and the configured model are still the previous model
\* (which therefore serves the next recording) and the attempt has made no
\* save_config call.
C16_FailedSwapKeepsOldModel ==
    [][ \A i \in 1..MaxSwaps :
          (WorkerFinally(i) /\ DownloadFailed(swaps[i]))
          => /\ transcriber' = swaps[i].old_model
             /\ config'.model = swaps[i].old_model
             /\ CallsOf(CallsBy(swapCalls', swaps[i].id), "save_config") = << >>
      ]_vars

\* the worker is in the phase before it replaces the transcriber
BeforeReplacement(w) == w.pc \in {"is_cached", "download", "construct"}

\* the transcriber is the old one while a worker downloads and constructs, a
\* release handled then transcribes with the old model, and only the
\* construction step of a worker replaces the transcriber
OldModelServesUntilConstructed ==
    /\ \A i \in DOMAIN swaps :
          BeforeReplacement(swaps[i])
          => /\ transcriber = swaps[i].old_model
             /\ (ReleaseStep /\ AudioLen(rec.buffer) >= MIN_SAMPLES)
                   => usedModel' = swaps[i].old_model
    /\ (transcriber' # transcriber)
          => \E i \in 1..MaxSwaps :
                /\ WorkerConstruct(i)
                /\ transcriber' = swaps[i].new_model
                /\ \/ swaps[i].new_model \in cached
                   \/ swaps[i].download # "none"

\* worker w ends having replaced the transcriber, then written the
\* configuration with the new model once, then told the menu bar the new
\* current model once
ReplacedWrittenNotified(w) ==
    LET trail == SwapTrail(swapCalls', w.id) IN
    /\ Len(trail) = 3
    /\ trail[1] = SwapCall("Transcriber", w.new_model, w.id)
    /\ trail[2].op = "save_config"
    /\ trail[2].arg[1].model = w.new_model
    /\ trail[2].arg[2] = "written"
    /\ trail[3] = SwapCall("setCurrentModel", w.new_model, w.id)
    /\ saved'.model = w.new_model
    /\ modelMenu'.current_model = w.new_model

C18_FlagAndDownloadingCleared ==
    [][ \A i \in 1..MaxSwaps :
          WorkerFinally(i)
          => /\ ~model_change_in_progress'
             /\ swaps[i].new_model \notin modelMenu'.downloading
             /\ \A m \in ModelInputs : ChangeModelRefusal(m)' # "busy" ]_vars

\* after an attempt whose save_config raised, a second request was accepted
C18_Witness ==
    /\ \E k \in DOMAIN swapCalls :
          /\ swapCalls[k].op = "save_config"
          /\ swapCalls[k].arg[2] = "raised"
          /\ swapCalls[k].by = 1
    /\ NumSwaps = 2
    /\ lastRequest.result = "started"

\* the calls a swap attempt makes when nothing fails
CallsOfASuccessfulSwap ==
    { "setModelDownloading", "download_model", "Transcriber", "save_config",
      "setCurrentModel", "refreshModelStates" }

\* C19: when the download of a swap attempt fails, the error does not leave
\* the attempt and the attempt tells the menu bar of the failure: it makes a
\* call that an attempt in which nothing fails does not make.
C19_FailureCaughtAndReported ==
    [][ \A i \in 1..MaxSwaps :
          (WorkerFinally(i) /\ DownloadFailed(swaps[i]))
          => \E k \in DOMAIN swapCalls' :
                /\ swapCalls'[k].by = swaps[i].id
                /\ swapCalls'[k].op \notin CallsOfASuccessfulSwap ]_vars

\* C20: change_model(m) for an m that is no recognized model, or that is the
\* current model, constructs no Transcriber, writes no configuration, starts
\* no worker and leaves the in-progress flag as it was (false, when no swap is
\* running).
C20_InvalidOrSameIsNoOp ==
    [][ \A m \in ModelInputs :
          ( /\ ModelRequestStep(m)
            /\ \/ m \notin VALID_MODELS
               \/ m = config.model
               \/ m = transcriber )
          => /\ NoSwapEffect
             /\ (swaps = << >>) => ~model_change_in_progress' ]_vars

\* after a swap to medium, a request for medium was dropped as the same model
C20_Witness ==
    /\ lastRequest = [model |-> "medium", result |-> "same"]
    /\ config.model = "medium"
    /\ swaps = << >>
    /\ ~model_change_in_progress


(***************************************************************************)
(* Properties of the Recorder                                              *)
(***************************************************************************)
\* C21: a stop that returns with no start since the previous stop returned
\* (or since construction) returns an empty array.
C21_StopWithoutStartIsEmpty ==
    [][ (ClientStopReturn /\ ~rclient.startedSinceStop) =>
          rclient'.ret = << >> ]_vars

\* C22: the buffer holds exactly the chunks the stream delivered between the
\* latest start and the next stop, in arrival order (so start empties it and
\* nothing is appended while disarmed), and a stop that follows a start
\* returns them.
C22_BufferIsChunksSinceStart ==
    /\ rec.buffer = rclient.sinceStart
    /\ (rclient.pc = "idle" /\ rclient.stops > 0 /\ ~rclient.startedSinceStop
          /\ rclient.starts > 0)
        => rclient.ret = rclient.sinceStart

\* a stop returned two chunks of the second recording, after a chunk of a
\* stream that was still open arrived while the recorder was disarmed
C22_Witness ==
    /\ rclient.pc = "idle"
    /\ rclient.starts = 2
    /\ rclient.stops = 2
    /\ Len(rclient.ret) = 2
    /\ rclient.ret # NoAudio
    /\ \A i \in DOMAIN rclient.ret : rclient.ret[i][1] = 2
    /\ rec.open = 0

(***************************************************************************)
(* Properties of inject_text                                               *)
(***************************************************************************)
\* C23: inject_text called with empty text returns at once: the pasteboard
\* keeps what it held, and the call neither touches the pasteboard, nor waits
\* for the modifiers, nor posts a key event.
C23_EmptyTextIsNoOp ==
    [][ \A clear_after \in BOOLEAN :
          InjectCall("", clear_after) =>
             /\ pasting'.pc = "returned"
             /\ pasting'.clipboard = pasting.clipboard
             /\ pasting'.effects = << >> ]_vars

\* an empty text was injected after "hi" was: the pasteboard still holds "hi"
C23_Witness ==
    /\ pasting.pc = "returned"
    /\ pasting.text = ""
    /\ pasting.effects = << >>
    /\ pasting.clipboard = "hi"

\* C24: when inject_text returns from a call with non-empty text it has, in
\* this order, put the text on the pasteboard, waited for the modifiers,
\* posted the paste key-down and then the paste key-up (each if the event
\* could be created), and last, only if clear_after is true, cleared the
\* pasteboard; with clear_after false the pasteboard holds the text.
C24_InjectOrder ==
    (pasting.pc = "returned" /\ pasting.text # "") =>
       /\ Len(pasting.created) = 2
       /\ pasting.effects =
             << Effect("clearContents", ""), Effect("setString", pasting.text),
                Effect("wait_for_modifiers_released", "") >>
             \o (IF pasting.created[1] THEN << PasteEvent("KeyDown") >> ELSE << >>)
             \o (IF pasting.created[2] THEN << PasteEvent("KeyUp") >> ELSE << >>)
             \o (IF pasting.clear_after THEN << Effect("clearContents", "") >>
                 ELSE << >>)
       /\ pasting.clipboard = IF pasting.clear_after THEN "" ELSE pasting.text

\* "hi" was pasted with both key events posted and clear_after false while
\* the user held a modifier (the wait timed out): the pasteboard holds "hi"
C24_Witness ==
    /\ pasting.pc = "returned"
    /\ pasting.text = "hi"
    /\ ~pasting.clear_after
    /\ pasting.created = << TRUE, TRUE >>
    /\ Len(pasting.effects) = 5
    /\ pasting.clipboard = "hi"
    /\ physFlags # {}

(***************************************************************************)
(* Properties of the listener's thread                                     *)
(***************************************************************************)
\* C25: HotkeyListener.stop clears the running flag, disables the tap if
\* there is one, and every call of it returns, whatever the listener's thread
\* does, even if it never leaves a callback.
C25_StopAlwaysReturns ==
    /\ [][ StopCall => ~hl'.running ]_vars
    /\ [][ (StopDisable /\ hl.tap # "none") => hl'.tap = "disabled" ]_vars
    /\ (lthread.stop_pc \in {"disable", "join"}) ~> (lthread.stop_pc = "returned")

\* stop returned after its join timed out: the thread is still in a callback
C25_Witness ==
    /\ lthread.stop_pc = "returned"
    /\ lthread.joined = "timeout"
    /\ lthread.pc = "in_callback"
    /\ hl.tap = "disabled"
    /\ ~hl.running

\* C26: when the tap could not be created, start has raised nothing, the
\* failure was reported, the listener's thread has ended, and no press or
\* release callback has fired: no event reached the callback, the recorder
\* was not started and no call was made.
C26_TapCreationFailure ==
    lthread.created = "failed" =>
       /\ lthread.start = "returned"
       /\ lthread.reported
       /\ lthread.pc = "ended"
       /\ cbLog = << >>
       /\ lastEvent = NoEvent
       /\ ~hl.hotkey_active
       /\ ~recording /\ calls = << >> /\ rec = NewRecorder

\* the tap could not be created and the user typed the hotkey: d is held with
\* Command, nothing fired, and a later stop has joined the ended thread
C26_Witness ==
    /\ lthread.created = "failed"
    /\ "d" \in keysDown
    /\ physFlags = {"Command"}
    /\ cbLog = << >>
    /\ lthread.stop_pc = "returned"
    /\ lthread.joined = "ended"

(***************************************************************************)
(* Properties of parse_hotkey                                              *)
(***************************************************************************)
\* C27: when a hotkey string is valid, every respelling of it (tokens in
\* another letter case, modifiers under another of their names) parses to the
\* same modifier mask and key code.
C27_CaseAndAliasInsensitive ==
    (parsing.result # NotParsed /\ parsing.result.ok) =>
        parsing.vresult = parsing.result

\* "cmd+shift+d" and "META+Shift+D" were parsed
C27_Witness ==
    /\ parsing.input = << "cmd", "shift", "d" >>
    /\ parsing.variant = << "META", "Shift", "D" >>
    /\ parsing.result.ok
    /\ parsing.vresult.ok

\* the tokens of a hotkey string, trimmed, in lower case
TokensOf(h) == [i \in DOMAIN h |-> IF h[i] \in {"", " "} THEN ""
                                   ELSE IF h[i] = " a " THEN "a" ELSE h[i]]
\* the names of the modifiers and of the keys
ModifierNames == {"cmd", "command", "meta", "shift", "alt", "option", "ctrl",
                  "control"}
KeyNames == DOMAIN KEYCODE_MAP
\* the flag of a modifier name
FlagOf(t) ==
    CASE t \in {"cmd", "command", "meta"} -> "Command"
      [] t = "shift"                      -> "Shift"
      [] t \in {"alt", "option"}          -> "Alternate"
      [] t \in {"ctrl", "control"}        -> "Control"

\* the error categories that apply to a string that cannot be parsed
ErrorsOf(h) ==
    LET t == TokensOf(h)
        keys == {i \in DOMAIN t : t[i] \in KeyNames}
        unknown == {i \in DOMAIN t : t[i] \notin KeyNames \cup ModifierNames}
    IN IF Len(h) = 1 /\ t[1] = ""
       THEN {"Hotkey string cannot be empty"}
       ELSE (IF unknown # {} THEN {"Unknown key"} ELSE {})
            \cup (IF Cardinality(keys) > 1 THEN {"Multiple keys specified"} ELSE {})
            \cup (IF keys = {} /\ unknown = {}
                  THEN {"No key specified in hotkey"} ELSE {})

\* C28: parse_hotkey succeeds exactly when the string is not empty or blank,
\* every token is a modifier name or a key name and exactly one is a key
\* name, and then returns that key's code and the union of the modifiers'
\* flags; otherwise it fails with an error that applies to the string:
\* 'empty' for an empty or blank string, 'unknown key' only if a token is
\* unknown, 'multiple keys' only if several tokens are keys, 'no key' if all
\* tokens are modifiers.
C28_ParseResult ==
    parsing.result # NotParsed =>
       LET h == parsing.input
           r == parsing.result
           t == TokensOf(h)
           keys == {i \in DOMAIN t : t[i] \in KeyNames}
           mods == {i \in DOMAIN t : t[i] \in ModifierNames}
       IN IF ErrorsOf(h) = {}
          THEN /\ r.ok
               /\ \E i \in keys : r.keycode = KEYCODE_MAP[t[i]]
               /\ r.modifier_mask = {FlagOf(t[i]) : i \in mods}
          ELSE /\ ~r.ok
               /\ r.err \in ErrorsOf(h)

\* "bogus+a+d" has an unknown token and two keys and failed on the token that
\* comes first
C28_Witness ==
    /\ parsing.input = << "bogus", "a", "d" >>
    /\ parsing.result = [ok |-> FALSE, err |-> "Unknown key"]

(***************************************************************************)
(* Properties of the callback's test                                       *)
(***************************************************************************)
\* C29: a key event matches the hotkey exactly when its key code is the
\* hotkey's and its command, shift, alt and control flags are exactly the
\* hotkey's modifiers; so two events that differ in other flags only match
\* alike, and an event that matches no longer does once it carries a further
\* one of the four modifiers.
C29_ExactMatchOnTrackedModifiers ==
    matching.tested =>
       LET cfg == matching.hotkey_config
           four == {"Command", "Shift", "Alternate", "Control"}
           tracked(f) == {x \in f : x \in four}
       IN /\ matching.result <=>
               ( /\ matching.keycode = cfg.keycode
                 /\ tracked(matching.flags) = cfg.modifier_mask )
          /\ tracked(matching.vflags) = tracked(matching.flags)
               => matching.vresult = matching.result
          /\ ( /\ matching.result
               /\ \E m \in four \ cfg.modifier_mask : m \in matching.vflags )
               => ~matching.vresult

\* cmd+d: the event d with Command and caps lock matches; its copy, which
\* carries Shift as well, does not
C29_Witness ==
    /\ matching.hotkey_config = [modifier_mask |-> {"Command"}, keycode |-> 2]
    /\ matching.flags = {"Command", "AlphaShift"}
    /\ matching.vflags = {"Command", "AlphaShift", "Shift"}
    /\ matching.tested
    /\ matching.result
    /\ ~matching.vresult

(***************************************************************************)
(* Properties of a model swap that overlaps a recording                    *)
(***************************************************************************)
\* C30: while a recording is in progress no step of a swap worker replaces
\* the active transcriber, so the release that ends the recording transcribes
\* with the model that was active when the recording started.
C30_NoReplacementWhileRecording ==
    [][ recording => transcriber' = transcriber ]_vars

\* C31: never two live hotkey captures: when the listener of a rebind (the
\* new one, or the old one restarted) has been started, the thread of the
\* listener it follows has ended: it processes no event and runs no handler.
C31_OneLiveCapture ==
    threads.successor # "none" => threads.capture = "ended"

\* the UI thread executes the rebind's self.hotkey_listener.stop()
StopListenerStep == threads.ui = "stop_listener" /\ threads'.ui = "join"

\* C32: in a rebind the old listener is stopped only after the new listener
\* has been constructed from the requested string; a request whose
\* construction fails never stops the old listener.
C32_ConstructBeforeStop ==
    [][ StopListenerStep => threads.constructed = "ok" ]_vars

\* no handler is executing: the capture thread is in no handler and the UI
\* thread is in no rebind
HandlersIdle ==
    /\ threads.capture \in {"loop", "ended"}
    /\ threads.ui \in {"idle", "done"}

\* C33: for every interleaving of a rebind on the UI thread with a press on
\* the capture thread, at most one input stream is open at any time, and
\* once the handlers have finished the recorder is armed or has a stream
\* open only if the orchestrator is Recording.
C33_RecorderFollowsState ==
    /\ rec.open <= 1
    /\ HandlersIdle => ((rec.recording \/ rec.open > 0) => recording)

\* C34: the active transcriber and the model of the configuration are
\* replaced together: in every state that another thread can observe, the
\* active transcriber is the one of the configured model.
C34_TranscriberIsConfiguredModel == transcriber = config.model

\* a rebind and a model swap have both run to their end and succeeded
BothSucceeded ==
    /\ threads.ui = "done"
    /\ threads.constructed = "ok"
    /\ threads.worker = "done"

\* C35: after any interleaving of a rebind and a model swap that both
\* succeed, the configuration in memory and the one on disk hold the new
\* hotkey and the new model, the hotkey on disk is the one the listener runs
\* on, and the model on disk is the one of the active transcriber.
C35_BothUpdatesKept ==
    BothSucceeded =>
        /\ config.hotkey = threads.new_hotkey
        /\ config.model = threads.new_model
        /\ saved = config
        /\ hl.hotkey_config = NewListener(parse_hotkey(saved.hotkey)).hotkey_config
        /\ saved.model = transcriber

\* C36: a rebind request whose hotkey string does not parse leaves the
\* daemon as it was: the recording state, also of a recording in progress,
\* the configured hotkey, the persisted configuration and the hotkey the
\* menu bar displays are the same after the request as before it.
C36_FailedRebindLeavesState ==
    [][ \A h \in UnparsableInputs :
          RebindStep(h)
          => /\ recording' = recording
             /\ rec'.recording = rec.recording
             /\ menubar'.is_recording = menubar.is_recording
             /\ config' = config
             /\ saved' = saved
             /\ menubar'.hotkey_display = menubar.hotkey_display ]_vars

\* C37: the orchestrator's work never holds up the capture thread: while a
\* release is being transcribed and injected, no key event waits for the
\* capture loop.
C37_CaptureLoopAnswers == Transcribing => ~threads.waiting

\* C39: whenever no handler is executing, the recording indicator last sent
\* to the menu bar is the orchestrator's recording state.
C39_IndicatorFollowsState ==
    HandlersIdle => menubar.is_recording = recording

\* the wait of inject_text ends and the paste follows
WaitEndStep == pasting.pc = "wait" /\ pasting'.pc = "key_down"

\* C38: inject_text goes on to post the paste keystroke only when no tracked
\* modifier is held or the wait's timeout has passed, and the wait always
\* ends: every call that began its wait returns, also when a modifier stays
\* held for ever.
C38_PasteAfterReleaseOrTimeout ==
    /\ [][ WaitEndStep =>
             \/ physFlags \cap TrackedFlags = {}
             \/ pasting.elapsed >= WaitTicks ]_vars
    /\ (pasting.pc = "wait") ~> (pasting.pc = "returned")

\* "hi" was pasted while the user held a modifier all the time: the wait ran
\* into its timeout
C38_Witness ==
    /\ pasting.pc = "returned"
    /\ pasting.text = "hi"
    /\ pasting.elapsed = WaitTicks
    /\ pasting.created = << TRUE, TRUE >>
    /\ physFlags \cap TrackedFlags # {}

\* C40: what parse_hotkey returns for a valid string depends neither on the
\* order of its tokens nor on a modifier being named twice: a string of the
\* same tokens in another order, with or without one of its modifiers named
\* once more under any of its names, parses, to the same modifier mask and
\* the same key code.
C40_OrderAndRepetitionIndependent ==
    (parsing.result # NotParsed /\ parsing.result.ok) =>
        /\ parsing.vresult.ok
        /\ parsing.vresult.modifier_mask = parsing.result.modifier_mask
        /\ parsing.vresult.keycode = parsing.result.keycode

\* "cmd+shift+d" and "d+meta+shift+cmd" were parsed
C40_Witness ==
    /\ parsing.input = << "cmd", "shift", "d" >>
    /\ parsing.variant = << "d", "meta", "shift", "cmd" >>
    /\ parsing.result.ok
    /\ parsing.vresult.ok

=============================================================================
